---------------------------- MODULE Spec2Model ----------------------------
(***************************************************************************)
(* A model of the rf103 driver library (fventuri/RF103).                   *)
(*                                                                         *)
(* The device facade of librf103.c is modelled as a state machine over    *)
(* one device handle: its fields, the GPIO shadow of the USB transport,   *)
(* the ADC transfer ring and the commands each operation sends to the     *)
(* device.  Every device command of an operation may fail; the position   *)
(* of the failing command is an input of the operation (failAt).          *)
(***************************************************************************)
EXTENDS Integers, Naturals, Sequences, FiniteSets, TLC

(***************************************************************************)
(* Bounds of the model.                                                    *)
(***************************************************************************)
RingDepth == 2       \* transfers of the ADC ring
MaxCallbacks == 2    \* user callback invocations that are counted
MaxTuners == 2       \* tuner instances allocated over a run
MaxFail == 9         \* positions at which a device command may fail

(***************************************************************************)
(* Program constants.                                                      *)
(***************************************************************************)
GPIO_LED_RED == 1
GPIO_LED_YELLOW == 2
GPIO_LED_BLUE == 4
GPIO_SEL0 == 8
GPIO_SEL1 == 16
GPIO_SHDWN == 32
GPIO_DITHER == 64
GPIO_RANDOM == 128

SI5351_MAX_VCO_FREQ == 900000000
SI5351_REGISTER_CLK_BASE == 16
SI5351_REGISTER_MSNA_BASE == 26
SI5351_REGISTER_MSNB_BASE == 34
SI5351_REGISTER_MS0_BASE == 42
SI5351_REGISTER_MS1_BASE == 50
SI5351_REGISTER_PLL_RESET == 177
SI5351_REGISTER_CRYSTAL_LOAD == 183
SI5351_VALUE_PLLA_RESET == 32
SI5351_VALUE_PLLB_RESET == 128
SI5351_VALUE_MS_INT == 64
SI5351_VALUE_CLK_SRC_MS == 12
SI5351_VALUE_CLK_DRV_8MA == 3
SI5351_VALUE_MS_SRC_PLLA == 0
SI5351_VALUE_MS_SRC_PLLB == 32
DEFAULT_TUNER_XTAL_FREQUENCY == 32000000

\* the two outputs of the clock generator as the facade names them
ADC_CLOCK == 0
TUNER_CLOCK == 1

(***************************************************************************)
(* 8-bit arithmetic: uint8_t patterns and masks.                           *)
(***************************************************************************)
RECURSIVE BitAnd(_, _)
BitAnd(x, y) ==
  IF x = 0 \/ y = 0 THEN 0
  ELSE (x % 2) * (y % 2) + 2 * BitAnd(x \div 2, y \div 2)

RECURSIVE BitOr(_, _)
BitOr(x, y) ==
  IF x = 0 THEN y
  ELSE IF y = 0 THEN x
  ELSE (IF x % 2 = 1 \/ y % 2 = 1 THEN 1 ELSE 0) + 2 * BitOr(x \div 2, y \div 2)

RECURSIVE BitXor(_, _)
BitXor(x, y) ==
  IF x = 0 THEN y
  ELSE IF y = 0 THEN x
  ELSE ((x + y) % 2) + 2 * BitXor(x \div 2, y \div 2)

\* ~x as a uint8_t
BitNot8(x) == 255 - x

LED_MASK == BitOr(GPIO_LED_RED, BitOr(GPIO_LED_YELLOW, GPIO_LED_BLUE))


(***************************************************************************)
(* State.                                                                  *)
(*   alive        the handle: "unopened", "open", or "freed" by rf103_close*)
(*   status, rf_mode, adc, has_tuner, tuner, sample_rate                   *)
(*                the fields of struct rf103 (adc, tuner: 0 is NULL)       *)
(*   liveTuners, nTuners   tuner instances allocated and not yet freed     *)
(*   gpio         the GPIO shadow register of the USB transport            *)
(*   ring, cancelFlag      the ADC transfer ring and its cancellation flag *)
(*   pc, todo, pend        the caller thread: "idle", or blocked in        *)
(*                adc_stop with the rest of the operation still to run     *)
(*   lastOp, lastArg, lastRet, cmds   the last operation called, its       *)
(*                argument, its result and the device commands it issued   *)
(*   ncallbacks   invocations of the user callback                         *)
(*   crashed, uaf, doubleFree   outcomes of undefined behaviour            *)
(*   rate_set     rf103_set_sample_rate has succeeded                      *)
(*   mode_set     the mode of the last successful rf103_set_rf_mode        *)
(*   prevStopOk   the operation before the last one was a successful       *)
(*                rf103_stop_streaming                                      *)
(*   stopped      rf103_stop_streaming has returned 0 and                  *)
(*                rf103_start_streaming has not been called since          *)
(*   stop_returned  rf103_stop_streaming has returned, with any result     *)
(*   gpioBefore   the GPIO shadow before the last operation                *)
(*   clk          the values computed by the last clock_source_set_clock   *)
(*                that was followed step by step (R divider, output and    *)
(*                feedback dividers); the calls made by                    *)
(*                rf103_start_streaming are followed by their commands only *)
(*   tun          the tuner followed register by register: whether it is   *)
(*                open, its struct tuner, the registers of the device, and *)
(*                the struct before the last operation on it               *)
(***************************************************************************)
VARIABLES alive, status, rf_mode, adc, has_tuner, tuner, sample_rate,
          liveTuners, nTuners, gpio, ring, cancelFlag, pc, todo, pend,
          lastOp, lastArg, lastRet, cmds, ncallbacks, crashed, uaf,
          doubleFree, rate_set, mode_set, prevStopOk, stopped, stop_returned,
          gpioBefore, clk, tun

handleVars == <<alive, status, rf_mode, adc, has_tuner, tuner, sample_rate>>
tunerVars == <<liveTuners, nTuners>>
ringVars == <<ring, cancelFlag, ncallbacks>>
callerVars == <<pc, todo, pend>>
ubVars == <<crashed, uaf, doubleFree>>
histVars == <<rate_set, mode_set, stopped, stop_returned>>
vars == <<alive, status, rf_mode, adc, has_tuner, tuner, sample_rate,
          liveTuners, nTuners, gpio, ring, cancelFlag, pc, todo, pend,
          lastOp, lastArg, lastRet, cmds, ncallbacks, crashed, uaf,
          doubleFree, rate_set, mode_set, prevStopOk, stopped, stop_returned,
          gpioBefore, clk, tun>>

Slots == 1..RingDepth
FailPoints == 0..MaxFail
\* what a call through a NULL pointer does: the callee is not in the
\* repository's sources, so it either dereferences it or rejects it
NullOutcomes == {"CRASH", "ERR"}
\* sample rates offered to rf103_set_sample_rate (Hz)
SampleRates == {0, 3900, 2000000}
\* argument values offered to rf103_set_rf_mode
RFModes == {"HF_MODE", "VHF_MODE", "NONE"}

(***************************************************************************)
(* The device commands of one operation, in the order issued.  A command  *)
(* fails iff its position in the operation equals failAt.                  *)
(***************************************************************************)
Cmd(req, reg, len, ok) == [req |-> req, reg |-> reg, len |-> len, ok |-> ok]

Issue(log, req, reg, len, failAt) ==
  Append(log, Cmd(req, reg, len, Len(log) + 1 # failAt))

\* a call that sends nothing to the device and cannot fail
Call(log, req) == Append(log, Cmd(req, 0, 0, TRUE))

LastOk(log) == log[Len(log)].ok

Has(log, req) == \E i \in 1..Len(log) : log[i].req = req
HasOk(log, req) == \E i \in 1..Len(log) : log[i].req = req /\ log[i].ok
\* position of the first command req of the log (0: none)
Pos(log, req) ==
  IF Has(log, req) THEN CHOOSE i \in 1..Len(log) :
                          /\ log[i].req = req
                          /\ \A j \in 1..(i - 1) : log[j].req # req
  ELSE 0

(***************************************************************************)
(* Clock source (clock_source.c).  Frequencies are whole numbers of Hz.    *)
(***************************************************************************)
\* a loop that also doubles a frequency of exactly 1 MHz
RECURSIVE RDivLoopLe(_, _)
RDivLoopLe(r_frequency, rdiv) ==
  IF r_frequency <= 1000000 /\ rdiv <= 7
  THEN RDivLoopLe(2 * r_frequency, rdiv + 1)
  ELSE [r_frequency |-> r_frequency, rdiv |-> rdiv]

\* while (r_frequency < 1e6 && rdiv <= 7) { r_frequency *= 2.0; rdiv += 1; }
RECURSIVE RDivLoop(_, _)
RDivLoop(r_frequency, rdiv) ==
  IF r_frequency < 1000000 /\ rdiv <= 7
  THEN RDivLoop(2 * r_frequency, rdiv + 1)
  ELSE [r_frequency |-> r_frequency, rdiv |-> rdiv]

\* an output divider that is not made even
OutputMsAny(r_frequency) == SI5351_MAX_VCO_FREQ \div r_frequency

\* output_ms = (uint32_t) (SI5351_MAX_VCO_FREQ / r_frequency); output_ms &= ~0x01
OutputMs(r_frequency) ==
  LET q == SI5351_MAX_VCO_FREQ \div r_frequency
  IN  q - (q % 2)

\* the request passes the checks made before the first I2C write
ClockRequestValid(index, frequency) ==
  /\ index \in {0, 1}
  /\ LET rd == RDivLoop(frequency, 0)
     IN  /\ rd.r_frequency >= 1000000
         /\ OutputMs(rd.r_frequency) >= 4
         /\ OutputMs(rd.r_frequency) <= 2048

MsnRegister(index) ==
  IF index = 0 THEN SI5351_REGISTER_MSNA_BASE ELSE SI5351_REGISTER_MSNB_BASE

\* a variant with one output group for both clocks
MsRegisterZero(index) == SI5351_REGISTER_MS0_BASE

MsRegister(index) ==
  IF index = 0 THEN SI5351_REGISTER_MS0_BASE ELSE SI5351_REGISTER_MS1_BASE

\* a variant that writes the clock control register whatever the PLL reset
\* write returned
reset_pll_and_clock_power_up_on(log, index, failAt) ==
  LET l1 == Issue(log, "I2CW", SI5351_REGISTER_PLL_RESET, 1, failAt)
      l2 == Issue(l1, "I2CW", SI5351_REGISTER_CLK_BASE + index, 1, failAt)
  IN  [ret |-> IF LastOk(l1) /\ LastOk(l2) THEN 0 ELSE -1, log |-> l2]

\* reset_pll_and_clock_power_up: PLL reset, then the clock control register
reset_pll_and_clock_power_up(log, index, failAt) ==
  LET l1 == Issue(log, "I2CW", SI5351_REGISTER_PLL_RESET, 1, failAt)
  IN  IF ~LastOk(l1) THEN [ret |-> -1, log |-> l1]
      ELSE LET l2 == Issue(l1, "I2CW", SI5351_REGISTER_CLK_BASE + index, 1,
                           failAt)
           IN  [ret |-> IF LastOk(l2) THEN 0 ELSE -1, log |-> l2]

\* clock_source_set_clock: feedback group, output group, PLL reset, control
clock_source_set_clock(log, index, frequency, failAt) ==
  IF ~ClockRequestValid(index, frequency) THEN [ret |-> -1, log |-> log]
  ELSE LET l1 == Issue(log, "I2CW", MsnRegister(index), 8, failAt)
       IN  IF ~LastOk(l1) THEN [ret |-> -1, log |-> l1]
           ELSE LET l2 == Issue(l1, "I2CW", MsRegister(index), 8, failAt)
                IN  IF ~LastOk(l2) THEN [ret |-> -1, log |-> l2]
                    ELSE reset_pll_and_clock_power_up(l2, index, failAt)

\* power_down_clocks: one write of 8 bytes at the clock control registers
power_down_clocks(log, failAt) ==
  Issue(log, "I2CW", SI5351_REGISTER_CLK_BASE, 8, failAt)

\* clock_source_open: crystal load capacitance, then power down all clocks
clock_source_open(log, failAt) ==
  LET l1 == Issue(log, "I2CW", SI5351_REGISTER_CRYSTAL_LOAD, 1, failAt)
  IN  IF ~LastOk(l1) THEN [ret |-> -1, log |-> l1]
      ELSE LET l2 == power_down_clocks(l1, failAt)
           IN  [ret |-> IF LastOk(l2) THEN 0 ELSE -1, log |-> l2]

\* clock_source_start_clock / clock_source_stop_clock: one command each
clock_source_start_clock(log, index, failAt) ==
  Issue(log, "clock_start", index, 0, failAt)

clock_source_stop_clock(log, index, failAt) ==
  Issue(log, "clock_stop", index, 0, failAt)

(***************************************************************************)
(* GPIO shadow of the USB transport (the usb_device_gpio functions).       *)
(***************************************************************************)
usb_device_gpio_set(g, bit_pattern, bit_mask) ==
  BitOr(BitAnd(g, BitNot8(bit_mask)), BitAnd(bit_pattern, bit_mask))

usb_device_gpio_on(g, bit_pattern) ==
  usb_device_gpio_set(g, bit_pattern, bit_pattern)

usb_device_gpio_off(g, bit_pattern) ==
  usb_device_gpio_set(g, 0, bit_pattern)

usb_device_gpio_toggle(g, bit_pattern) ==
  usb_device_gpio_set(g, BitXor(g, bit_pattern), bit_pattern)

\* initial_gpio_register()
initial_gpio_register ==
  BitOr(GPIO_SEL1, BitOr(GPIO_LED_BLUE, BitOr(GPIO_LED_YELLOW, GPIO_LED_RED)))

(***************************************************************************)
(* ADC transfer ring (adc functions).  A transfer is "idle" (not in        *)
(* flight), "submitted", "completed" (its completion awaits the event      *)
(* pump), "cancelling" (cancel requested) or "cancelled" (its cancelled    *)
(* completion awaits the event pump).                                      *)
(***************************************************************************)
AllIdle(r) == \A i \in Slots : r[i] = "idle"

IdleRing == [i \in Slots |-> "idle"]

\* the state an operation threads through its steps
NewSt(log) ==
  [log |-> log, ret |-> "RUN", ring |-> ring, cancel |-> cancelFlag,
   wait |-> FALSE]

\* a call of an adc function with a NULL adc
NullCall(st, nullOutcome, checked) ==
  IF nullOutcome = "CRASH" THEN [st EXCEPT !.ret = "CRASH"]
  ELSE IF checked THEN [st EXCEPT !.ret = "ERR"]
  ELSE st

\* adc_set_sample_rate: the rate is kept in the adc for adc_start; nothing
\* is sent to the device
adc_set_sample_rate(st) ==
  [st EXCEPT !.log = Call(st.log, "adc_set_sample_rate")]

\* adc_start: submit every transfer of the ring
adc_start(st, failAt) ==
  IF ~AllIdle(st.ring)
  THEN [st EXCEPT !.log = Append(st.log, Cmd("adc_start", 0, 0, FALSE)),
                  !.ret = "ERR"]
  ELSE LET l == Issue(st.log, "adc_start", 0, 0, failAt)
       IN  IF ~LastOk(l) THEN [st EXCEPT !.log = l, !.ret = "ERR"]
           ELSE [st EXCEPT !.log = l, !.cancel = FALSE,
                           !.ring = [i \in Slots |-> "submitted"]]

\* transfers that have not reached terminal status
InFlight(r) == {i \in Slots : r[i] # "idle"}

\* adc_stop: request cancellation of every transfer in flight (their number
\* is kept with the command), then wait until all of them have reached
\* terminal status ("adc_stop_done")
adc_stop(st, failAt) ==
  LET l == Issue(st.log, "adc_stop", 0, Cardinality(InFlight(st.ring)), failAt)
      r == [i \in Slots |->
              IF st.ring[i] = "submitted" THEN "cancelling" ELSE st.ring[i]]
  IN  IF ~LastOk(l) THEN [st EXCEPT !.log = l, !.ret = "ERR"]
      ELSE IF AllIdle(r)
      THEN [st EXCEPT !.log = Call(l, "adc_stop_done"), !.cancel = TRUE]
      ELSE [st EXCEPT !.log = l, !.cancel = TRUE, !.ring = r, !.wait = TRUE]

\* the event pump: every pending completion is taken; a completed transfer
\* is handed to the user callback and resubmitted unless cancellation has
\* been requested
PumpRing(r, cancel) ==
  [i \in Slots |->
     IF r[i] = "completed" THEN (IF cancel THEN "idle" ELSE "submitted")
     ELSE IF r[i] = "cancelled" THEN "idle"
     ELSE r[i]]

PumpCallbacks(r, cancel) ==
  IF cancel THEN 0 ELSE Cardinality({i \in Slots : r[i] = "completed"})

(***************************************************************************)
(* Streaming operations of the facade as the sequence of their steps;      *)
(* a step that fails ends the operation with -1.                           *)
(***************************************************************************)
\* a start that tells the device to stream before the ring is submitted
StartPlanFx3Early ==
  <<"set_clock_adc", "start_clock_adc">>
  \o (IF rf_mode = "VHF_MODE" /\ tuner # 0
      THEN <<"set_clock_tuner", "start_clock_tuner", "tuner_start">>
      ELSE <<>>)
  \o <<"adc_set_sample_rate", "STARTFX3", "adc_start">>

\* rf103_start_streaming
StartPlan ==
  <<"set_clock_adc", "start_clock_adc">>
  \o (IF rf_mode = "VHF_MODE" /\ tuner # 0
      THEN <<"set_clock_tuner", "start_clock_tuner", "tuner_start">>
      ELSE <<>>)
  \o <<"adc_set_sample_rate", "adc_start", "STARTFX3">>

\* a stop that cancels the transfers before it stops the device
StopPlanCancelFirst == <<"adc_stop", "STOPFX3", "stop_clock_adc">>

\* a stop that leaves the transfers in flight
StopPlanNoCancel == <<"STOPFX3", "stop_clock_adc">>

\* rf103_stop_streaming
StopPlan == <<"STOPFX3", "adc_stop", "stop_clock_adc">>

FromClock(st, r) ==
  [st EXCEPT !.log = r.log, !.ret = IF r.ret < 0 THEN "ERR" ELSE "RUN"]

FromIssue(st, l) ==
  [st EXCEPT !.log = l, !.ret = IF LastOk(l) THEN "RUN" ELSE "ERR"]

Step(name, st, failAt, nullOutcome) ==
  CASE name = "set_clock_adc" ->
         FromClock(st, clock_source_set_clock(st.log, ADC_CLOCK, sample_rate,
                                              failAt))
    [] name = "start_clock_adc" ->
         FromIssue(st, clock_source_start_clock(st.log, ADC_CLOCK, failAt))
    [] name = "set_clock_tuner" ->
         FromClock(st, clock_source_set_clock(st.log, TUNER_CLOCK,
                                              DEFAULT_TUNER_XTAL_FREQUENCY,
                                              failAt))
    [] name = "start_clock_tuner" ->
         FromIssue(st, clock_source_start_clock(st.log, TUNER_CLOCK, failAt))
    [] name = "tuner_start" ->
         [st EXCEPT !.log = Call(st.log, "tuner_start")]
    [] name = "adc_set_sample_rate" ->
         IF adc = 0 THEN NullCall(st, nullOutcome, FALSE)
         ELSE adc_set_sample_rate(st)
    [] name = "adc_start" ->
         IF adc = 0 THEN NullCall(st, nullOutcome, TRUE)
         ELSE adc_start(st, failAt)
    [] name = "STARTFX3" ->
         FromIssue(st, Issue(st.log, "STARTFX3", 0, 0, failAt))
    [] name = "STOPFX3" ->
         FromIssue(st, Issue(st.log, "STOPFX3", 0, 0, failAt))
    [] name = "adc_stop" ->
         IF adc = 0 THEN NullCall(st, nullOutcome, TRUE)
         ELSE adc_stop(st, failAt)
    [] name = "stop_clock_adc" ->
         FromIssue(st, clock_source_stop_clock(st.log, ADC_CLOCK, failAt))

\* run the steps in order: stop at the first failure, suspend in a wait
RECURSIVE Run(_, _, _, _)
Run(plan, st, failAt, nullOutcome) ==
  IF plan = <<>> THEN [st |-> [st EXCEPT !.ret = "OK"], todo |-> <<>>]
  ELSE LET s == Step(Head(plan), st, failAt, nullOutcome)
       IN  IF s.ret # "RUN" THEN [st |-> s, todo |-> <<>>]
           ELSE IF s.wait THEN [st |-> s, todo |-> Tail(plan)]
           ELSE Run(Tail(plan), s, failAt, nullOutcome)

(***************************************************************************)
(* Initial state: no handle yet.                                           *)
(***************************************************************************)
NoArg == [p |-> 0, m |-> 0]
NoPend == [failAt |-> 0, nullOutcome |-> "ERR"]
NoClk == [why |-> "none"]
\* the registers of the tuner device before the program has touched them
DevReset == [i \in 0..31 |-> IF i = 0 THEN 150 ELSE 0]
NoTuner == [open |-> FALSE, dev |-> DevReset, n |-> 0]

Init ==
  /\ alive = "unopened"
  /\ status = "STATUS_OFF"
  /\ rf_mode = "HF_MODE"
  /\ adc = 0
  /\ has_tuner = FALSE
  /\ tuner = 0
  /\ sample_rate = 0
  /\ liveTuners = {}
  /\ nTuners = 0
  /\ gpio = 0
  /\ ring = IdleRing
  /\ cancelFlag = FALSE
  /\ pc = "idle"
  /\ todo = <<>>
  /\ pend = NoPend
  /\ lastOp = "none"
  /\ lastArg = NoArg
  /\ lastRet = "OK"
  /\ cmds = <<>>
  /\ ncallbacks = 0
  /\ crashed = FALSE
  /\ uaf = FALSE
  /\ doubleFree = FALSE
  /\ rate_set = FALSE
  /\ mode_set = "none"
  /\ prevStopOk = FALSE
  /\ stopped = FALSE
  /\ stop_returned = FALSE
  /\ gpioBefore = 0
  /\ clk = NoClk
  /\ tun = NoTuner

\* the caller may call into the library: the handle is open, the process
\* lives and the caller is not blocked inside an operation
Callable == alive = "open" /\ ~crashed /\ pc = "idle"

\* an operation has been called and has returned ret ("OK": 0 or a handle,
\* "ERR": -1 or NULL) after issuing the commands of log
OpDone(op, arg, ret, log) ==
  /\ lastOp' = op
  /\ lastArg' = arg
  /\ lastRet' = ret
  /\ cmds' = log
  /\ prevStopOk' = (lastOp = "rf103_stop_streaming" /\ lastRet = "OK")
  /\ gpioBefore' = gpio
  /\ clk' = clk
  /\ tun' = tun

(***************************************************************************)
(* Basic functions.                                                        *)
(***************************************************************************)
rf103_open ==
  /\ alive = "unopened" /\ ~crashed
  /\ \E failAt \in FailPoints, tunerPresent \in BOOLEAN :
       LET l1 == Issue(<<>>, "usb_device_open", 0, 0, failAt)
           c  == clock_source_open(l1, failAt)
           l3 == Issue(c.log, "TESTFX3", 0, 4, failAt)
       IN  IF ~LastOk(l1)
           THEN /\ OpDone("rf103_open", NoArg, "ERR", l1)
                /\ UNCHANGED <<handleVars, gpio>>
           ELSE IF c.ret < 0
           THEN /\ OpDone("rf103_open", NoArg, "ERR",
                          Call(c.log, "usb_device_close"))
                /\ UNCHANGED <<handleVars, gpio>>
           ELSE /\ OpDone("rf103_open", NoArg, "OK", l3)
                /\ alive' = "open"
                /\ status' = "STATUS_READY"
                /\ rf_mode' = "HF_MODE"
                /\ adc' = 0
                /\ has_tuner' = (LastOk(l3) /\ tunerPresent)
                /\ tuner' = 0
                /\ sample_rate' = 0
                /\ gpio' = initial_gpio_register
  /\ UNCHANGED <<tunerVars, ringVars, callerVars, ubVars, histVars>>

\* rf103_status
rf103_status == status

\* the commands of rf103_close: adc_close and tuner_close free memory only
CloseLog(failAt) ==
  Call(power_down_clocks(<<>>, failAt), "usb_device_close")

rf103_close ==
  /\ Callable
  /\ \E failAt \in 0..1 :
       OpDone("rf103_close", NoArg, "OK", CloseLog(failAt))
  /\ alive' = "freed"
  /\ liveTuners' = liveTuners \ {tuner}
  /\ ring' = IdleRing
  /\ UNCHANGED <<status, rf_mode, adc, has_tuner, tuner, sample_rate, nTuners,
                 gpio, cancelFlag, ncallbacks, callerVars, ubVars, histVars>>

\* rf103_close on the handle it has already freed: this->adc and the other
\* fields are read from released memory, so the call either crashes or runs
\* on the stale fields and releases everything a second time
rf103_close_again ==
  /\ alive = "freed" /\ ~crashed /\ pc = "idle"
  /\ uaf' = TRUE
  /\ \E outcome \in {"CRASH", "STALE"}, failAt \in 0..1 :
       IF outcome = "CRASH"
       THEN /\ crashed' = TRUE
            /\ doubleFree' = doubleFree
            /\ OpDone("rf103_close", NoArg, "NORETURN", <<>>)
       ELSE /\ crashed' = FALSE
            /\ doubleFree' = TRUE
            /\ OpDone("rf103_close", NoArg, "OK", CloseLog(failAt))
  /\ UNCHANGED <<handleVars, tunerVars, gpio, ringVars, callerVars, histVars>>

rf103_set_rf_mode ==
  /\ Callable
  /\ \E mode \in RFModes, failAt \in 0..1 :
       CASE mode = "HF_MODE" ->
              /\ OpDone("rf103_set_rf_mode", NoArg, "OK", <<>>)
              /\ liveTuners' = liveTuners \ {tuner}
              /\ tuner' = 0
              /\ mode_set' = "HF_MODE"
              /\ UNCHANGED nTuners
         [] mode = "VHF_MODE" /\ ~has_tuner ->
              /\ OpDone("rf103_set_rf_mode", NoArg, "ERR", <<>>)
              /\ UNCHANGED <<tuner, tunerVars, mode_set>>
         [] mode = "VHF_MODE" /\ has_tuner ->
              LET l == Issue(<<>>, "tuner_open", 0, 0, failAt)
              IN  /\ nTuners < MaxTuners
                  /\ IF LastOk(l)
                     THEN /\ OpDone("rf103_set_rf_mode", NoArg, "OK", l)
                          /\ nTuners' = nTuners + 1
                          /\ tuner' = nTuners + 1
                          /\ liveTuners' = liveTuners \cup {nTuners + 1}
                          /\ mode_set' = "VHF_MODE"
                     ELSE /\ OpDone("rf103_set_rf_mode", NoArg, "ERR", l)
                          /\ tuner' = 0
                          /\ UNCHANGED <<tunerVars, mode_set>>
         [] OTHER ->
              /\ OpDone("rf103_set_rf_mode", NoArg, "ERR", <<>>)
              /\ UNCHANGED <<tuner, tunerVars, mode_set>>
  /\ UNCHANGED <<alive, status, rf_mode, adc, has_tuner, sample_rate, gpio,
                 ringVars, callerVars, ubVars, rate_set, stopped,
                 stop_returned>>

(***************************************************************************)
(* Streaming related functions.                                            *)
(***************************************************************************)
rf103_set_sample_rate ==
  /\ Callable
  /\ \E rate \in SampleRates :
       /\ sample_rate' = rate
       /\ OpDone("rf103_set_sample_rate", NoArg, "OK", <<>>)
  /\ rate_set' = TRUE
  /\ UNCHANGED <<alive, status, rf_mode, adc, has_tuner, tuner, tunerVars,
                 gpio, ringVars, callerVars, ubVars, mode_set, stopped, stop_returned>>

rf103_set_async_params ==
  /\ Callable
  /\ \E failAt \in 0..1 :
       IF adc # 0
       THEN /\ OpDone("rf103_set_async_params", NoArg, "ERR", <<>>)
            /\ UNCHANGED adc
       ELSE LET l == Issue(<<>>, "adc_open_async", 0, 0, failAt)
            IN  /\ OpDone("rf103_set_async_params", NoArg,
                          IF LastOk(l) THEN "OK" ELSE "ERR", l)
                /\ adc' = IF LastOk(l) THEN 1 ELSE 0
  /\ UNCHANGED <<alive, status, rf_mode, has_tuner, tuner, sample_rate,
                 tunerVars, gpio, ringVars, callerVars, ubVars, histVars>>

\* what a streaming operation leaves behind when it returns, crashes or
\* blocks in adc_stop
Finish(op, r, failAt, nullOutcome) ==
  /\ ring' = r.st.ring
  /\ cancelFlag' = r.st.cancel
  /\ crashed' = (r.st.ret = "CRASH")
  /\ IF r.st.ret = "RUN"
     THEN /\ pc' = "adc_stop"
          /\ todo' = r.todo
          /\ pend' = [failAt |-> failAt, nullOutcome |-> nullOutcome]
          /\ OpDone(op, NoArg, "PENDING", r.st.log)
     ELSE /\ pc' = "idle"
          /\ todo' = <<>>
          /\ pend' = NoPend
          /\ OpDone(op, NoArg,
                    IF r.st.ret = "CRASH" THEN "NORETURN" ELSE r.st.ret,
                    r.st.log)

rf103_start_streaming ==
  /\ Callable
  /\ \E failAt \in FailPoints, nullOutcome \in NullOutcomes :
       Finish("rf103_start_streaming",
              Run(StartPlan, NewSt(<<>>), failAt, nullOutcome),
              failAt, nullOutcome)
  /\ stopped' = FALSE
  /\ UNCHANGED <<handleVars, tunerVars, gpio, ncallbacks, uaf, doubleFree,
                 rate_set, mode_set, stop_returned>>

rf103_handle_events ==
  /\ Callable
  /\ ncallbacks + PumpCallbacks(ring, cancelFlag) <= MaxCallbacks
  /\ ncallbacks' = ncallbacks + PumpCallbacks(ring, cancelFlag)
  /\ ring' = PumpRing(ring, cancelFlag)
  /\ OpDone("rf103_handle_events", NoArg, "OK", <<>>)
  /\ UNCHANGED <<handleVars, tunerVars, gpio, cancelFlag, callerVars, ubVars,
                 histVars>>

rf103_stop_streaming ==
  /\ Callable
  /\ \E failAt \in FailPoints, nullOutcome \in NullOutcomes :
       LET r == Run(StopPlan, NewSt(<<>>), failAt, nullOutcome)
       IN  /\ Finish("rf103_stop_streaming", r, failAt, nullOutcome)
           /\ stopped' = IF r.st.ret = "OK" THEN TRUE ELSE stopped
           /\ stop_returned' = IF r.st.ret \in {"OK", "ERR"} THEN TRUE
                               ELSE stop_returned
  /\ UNCHANGED <<handleVars, tunerVars, gpio, ncallbacks, uaf, doubleFree,
                 rate_set, mode_set>>

\* the event pump run by the wait of adc_stop
AdcStopPump ==
  /\ pc = "adc_stop" /\ ~crashed
  /\ \E i \in Slots : ring[i] \in {"completed", "cancelled"}
  /\ ncallbacks + PumpCallbacks(ring, cancelFlag) <= MaxCallbacks
  /\ ncallbacks' = ncallbacks + PumpCallbacks(ring, cancelFlag)
  /\ ring' = PumpRing(ring, cancelFlag)
  /\ UNCHANGED <<handleVars, tunerVars, gpio, cancelFlag, callerVars, ubVars,
                 histVars, lastOp, lastArg, lastRet, cmds, prevStopOk,
                 gpioBefore, clk, tun>>

\* adc_stop returns once every transfer is terminal; the operation goes on
StopResume ==
  /\ pc = "adc_stop" /\ ~crashed
  /\ AllIdle(ring)
  /\ LET r == Run(todo, NewSt(Call(cmds, "adc_stop_done")), pend.failAt,
                  pend.nullOutcome)
     IN  /\ ring' = r.st.ring
         /\ cancelFlag' = r.st.cancel
         /\ crashed' = (r.st.ret = "CRASH")
         /\ pc' = "idle"
         /\ todo' = <<>>
         /\ pend' = NoPend
         /\ lastRet' = IF r.st.ret = "CRASH" THEN "NORETURN" ELSE r.st.ret
         /\ cmds' = r.st.log
         /\ stopped' = IF lastOp = "rf103_stop_streaming" /\ r.st.ret = "OK"
                       THEN TRUE ELSE stopped
         /\ stop_returned' = IF /\ lastOp = "rf103_stop_streaming"
                                /\ r.st.ret \in {"OK", "ERR"}
                             THEN TRUE ELSE stop_returned
  /\ UNCHANGED <<handleVars, tunerVars, gpio, ncallbacks, uaf, doubleFree,
                 rate_set, mode_set, lastOp, lastArg, prevStopOk, gpioBefore,
                 clk, tun>>

(***************************************************************************)
(* The device and the USB backend.                                         *)
(***************************************************************************)
\* a transfer in flight completes with data (also one whose cancellation
\* has been requested but not yet carried out)
DeviceComplete ==
  /\ alive = "open" /\ ~crashed
  /\ \E i \in Slots :
       /\ ring[i] \in {"submitted", "cancelling"}
       /\ ring' = [ring EXCEPT ![i] = "completed"]
  /\ UNCHANGED <<handleVars, tunerVars, gpio, cancelFlag, ncallbacks,
                 callerVars, ubVars, histVars, lastOp, lastArg, lastRet, cmds,
                 prevStopOk, gpioBefore, clk, tun>>

\* a requested cancellation is carried out
DeviceCancelled ==
  /\ alive = "open" /\ ~crashed
  /\ \E i \in Slots :
       /\ ring[i] = "cancelling"
       /\ ring' = [ring EXCEPT ![i] = "cancelled"]
  /\ UNCHANGED <<handleVars, tunerVars, gpio, cancelFlag, ncallbacks,
                 callerVars, ubVars, histVars, lastOp, lastArg, lastRet, cmds,
                 prevStopOk, gpioBefore, clk, tun>>

(***************************************************************************)
(* GPIO related functions.  Every update of the shadow is pushed to the    *)
(* device by a GPIOFX3 command.                                            *)
(***************************************************************************)
\* LED patterns and attenuations offered to the GPIO functions
LedPatterns == {0, GPIO_LED_RED, BitOr(GPIO_LED_YELLOW, GPIO_LED_BLUE),
                BitOr(GPIO_LED_RED, GPIO_SEL0), GPIO_RANDOM}
\* attenuations are doubles: they are written in tenths of a dB
Attenuations == {0, 100, 200, 150, 105, -5}
GpioPatterns == {0, BitOr(GPIO_SHDWN, GPIO_LED_RED), 255}
GpioMasks == {GPIO_SHDWN, BitOr(GPIO_SEL0, GPIO_LED_RED)}

\* a pattern check that lets the SEL0 bit through
LedPatternInvalidSel0(led_pattern) ==
  BitAnd(led_pattern, BitNot8(BitOr(LED_MASK, GPIO_SEL0))) # 0

\* led_pattern & ~(GPIO_LED_RED | GPIO_LED_YELLOW | GPIO_LED_BLUE)
LedPatternInvalid(led_pattern) ==
  BitAnd(led_pattern, BitNot8(LED_MASK)) # 0

\* the bit mask rf103_hf_attenuation hands to usb_device_gpio_set
HfAttenuationMask == BitOr(GPIO_SEL0, GPIO_SEL1)

\* (int) attenuation: the conversion drops the fraction, towards zero
IntCast(tenths) ==
  IF tenths >= 0 THEN tenths \div 10 ELSE -((-tenths) \div 10)

\* switch ((int) attenuation): the bit pattern, or -1 for default
HfAttenuationPattern(attenuation) ==
  CASE IntCast(attenuation) = 0 -> GPIO_SEL1
    [] IntCast(attenuation) = 10 -> BitOr(GPIO_SEL0, GPIO_SEL1)
    [] IntCast(attenuation) = 20 -> GPIO_SEL0
    [] OTHER -> -1

\* the shadow becomes g and is pushed to the device
GpioPush(op, arg, g) ==
  /\ gpio' = g
  /\ \E failAt \in 0..1 :
       LET l == Issue(<<>>, "GPIOFX3", g, 0, failAt)
       IN  OpDone(op, arg, IF LastOk(l) THEN "OK" ELSE "ERR", l)

GpioRejected(op, arg) ==
  /\ gpio' = gpio
  /\ OpDone(op, arg, "ERR", <<>>)

GpioFrame ==
  UNCHANGED <<handleVars, tunerVars, ringVars, callerVars, ubVars, histVars>>

rf103_led_on ==
  /\ Callable
  /\ \E led_pattern \in LedPatterns :
       IF LedPatternInvalid(led_pattern)
       THEN GpioRejected("rf103_led_on", [p |-> led_pattern, m |-> 0])
       ELSE GpioPush("rf103_led_on", [p |-> led_pattern, m |-> 0],
                     usb_device_gpio_on(gpio, led_pattern))
  /\ GpioFrame

rf103_led_off ==
  /\ Callable
  /\ \E led_pattern \in LedPatterns :
       IF LedPatternInvalid(led_pattern)
       THEN GpioRejected("rf103_led_off", [p |-> led_pattern, m |-> 0])
       ELSE GpioPush("rf103_led_off", [p |-> led_pattern, m |-> 0],
                     usb_device_gpio_off(gpio, led_pattern))
  /\ GpioFrame

rf103_led_toggle ==
  /\ Callable
  /\ \E led_pattern \in LedPatterns :
       IF LedPatternInvalid(led_pattern)
       THEN GpioRejected("rf103_led_toggle", [p |-> led_pattern, m |-> 0])
       ELSE GpioPush("rf103_led_toggle", [p |-> led_pattern, m |-> 0],
                     usb_device_gpio_toggle(gpio, led_pattern))
  /\ GpioFrame

rf103_adc_dither ==
  /\ Callable
  /\ \E dither \in {0, 1} :
       GpioPush("rf103_adc_dither", [p |-> dither, m |-> 0],
                IF dither # 0 THEN usb_device_gpio_on(gpio, GPIO_DITHER)
                ELSE usb_device_gpio_off(gpio, GPIO_DITHER))
  /\ GpioFrame

\* the call of adc_set_random after the two returns is never reached
rf103_adc_random ==
  /\ Callable
  /\ \E random \in {0, 1} :
       GpioPush("rf103_adc_random", [p |-> random, m |-> 0],
                IF random # 0 THEN usb_device_gpio_on(gpio, GPIO_RANDOM)
                ELSE usb_device_gpio_off(gpio, GPIO_RANDOM))
  /\ GpioFrame

rf103_hf_attenuation ==
  /\ Callable
  /\ \E attenuation \in Attenuations :
       IF HfAttenuationPattern(attenuation) < 0
       THEN GpioRejected("rf103_hf_attenuation", [p |-> attenuation, m |-> 0])
       ELSE GpioPush("rf103_hf_attenuation", [p |-> attenuation, m |-> 0],
                     usb_device_gpio_set(gpio,
                                         HfAttenuationPattern(attenuation),
                                         HfAttenuationMask))
  /\ GpioFrame

\* the transport's own entry point
gpio_set ==
  /\ Callable
  /\ \E bit_pattern \in GpioPatterns, bit_mask \in GpioMasks :
       GpioPush("usb_device_gpio_set", [p |-> bit_pattern, m |-> bit_mask],
                usb_device_gpio_set(gpio, bit_pattern, bit_mask))
  /\ GpioFrame

(***************************************************************************)
(* Specifications.  Spec: the life cycle of a handle and its streaming.    *)
(* SpecGpio: the GPIO functions on an open handle.                         *)
(***************************************************************************)
Next ==
  \/ rf103_open
  \/ rf103_close
  \/ rf103_close_again
  \/ rf103_set_rf_mode
  \/ rf103_set_sample_rate
  \/ rf103_set_async_params
  \/ rf103_start_streaming
  \/ rf103_handle_events
  \/ rf103_stop_streaming
  \/ AdcStopPump
  \/ StopResume
  \/ DeviceComplete
  \/ DeviceCancelled

Spec == Init /\ [][Next]_vars

NextGpio ==
  \/ rf103_open
  \/ rf103_close
  \/ rf103_led_on
  \/ rf103_led_off
  \/ rf103_led_toggle
  \/ rf103_adc_dither
  \/ rf103_adc_random
  \/ rf103_hf_attenuation
  \/ gpio_set

SpecGpio == Init /\ [][NextGpio]_vars

(***************************************************************************)
(* Properties of the device facade.                                        *)
(***************************************************************************)
Started == lastOp = "rf103_start_streaming"
Stopping == lastOp = "rf103_stop_streaming"

\* clock output index has been programmed by commands before position i:
\* the four writes of clock_source_set_clock, in order, all acknowledged
Programmed(log, index, i) ==
  \E d \in 4..(i - 1) :
    /\ log[d] = Cmd("I2CW", SI5351_REGISTER_CLK_BASE + index, 1, TRUE)
    /\ log[d - 1] = Cmd("I2CW", SI5351_REGISTER_PLL_RESET, 1, TRUE)
    /\ log[d - 2] = Cmd("I2CW", MsRegister(index), 8, TRUE)
    /\ log[d - 3] = Cmd("I2CW", MsnRegister(index), 8, TRUE)

\* command (req, reg) has been acknowledged before position i
OkBefore(log, req, reg, i) ==
  \E j \in 1..(i - 1) : log[j].req = req /\ log[j].reg = reg /\ log[j].ok

\* C1: after a successful rf103_open the status is READY, after a
\* successful rf103_start_streaming it is STREAMING, after a successful
\* rf103_stop_streaming it is READY again.
C1_StatusLifecycle ==
  /\ (lastOp = "rf103_open" /\ lastRet = "OK")
       => rf103_status = "STATUS_READY"
  /\ (Started /\ lastRet = "OK") => rf103_status = "STATUS_STREAMING"
  /\ (Stopping /\ lastRet = "OK") => rf103_status = "STATUS_READY"

\* C2: rf103_start_streaming on a handle for which rf103_set_sample_rate or
\* rf103_set_async_params has not yet succeeded returns an error and has
\* sent no command to the device.
C2_StartNeedsParams ==
  (Started /\ ~(rate_set /\ adc # 0)) => (lastRet = "ERR" /\ cmds = <<>>)

\* C3: in rf103_start_streaming STARTFX3 is the last command issued, it is
\* issued only after the ADC clock has been programmed and started and
\* adc_start has succeeded, and it is not issued when an earlier step failed.
C3_StartFx3Last ==
  Started =>
    /\ \A i \in 1..Len(cmds) :
         cmds[i].req = "STARTFX3" =>
           /\ i = Len(cmds)
           /\ Programmed(cmds, ADC_CLOCK, i)
           /\ OkBefore(cmds, "clock_start", ADC_CLOCK, i)
           /\ OkBefore(cmds, "adc_start", 0, i)
           /\ \A j \in 1..(i - 1) : cmds[j].ok
    /\ lastRet = "OK" => Has(cmds, "STARTFX3")

C3_Witness ==
  /\ Started /\ lastRet = "OK"
  /\ HasOk(cmds, "STARTFX3")
  /\ \A i \in Slots : ring[i] = "submitted"

\* C4 as claimed: rf103_stop_streaming has cancelled the transfers in flight
\* and waited for them (adc_stop) before it sends STOPFX3.
C4_CancelBeforeStopFx3 ==
  Stopping =>
    \A i \in 1..Len(cmds) :
      cmds[i].req = "STOPFX3" => OkBefore(cmds, "adc_stop_done", 0, i)

\* C4 amended: rf103_stop_streaming sends STOPFX3 first; only after STOPFX3
\* succeeded does it cancel the transfers in flight and wait for them
\* (adc_stop), and only after that wait does it stop the ADC clock; when it
\* returns 0 no transfer is in flight.
C4_StopFx3ThenCancel ==
  Stopping =>
    /\ \A i \in 1..Len(cmds) :
         /\ cmds[i].req = "adc_stop" => OkBefore(cmds, "STOPFX3", 0, i)
         /\ cmds[i].req = "clock_stop" =>
              /\ OkBefore(cmds, "adc_stop", 0, i)
              /\ OkBefore(cmds, "adc_stop_done", 0, i)
    /\ lastRet = "OK" =>
         /\ HasOk(cmds, "STOPFX3") /\ HasOk(cmds, "adc_stop")
         /\ HasOk(cmds, "clock_stop")
         /\ AllIdle(ring)

C4_Witness ==
  /\ Stopping /\ lastRet = "OK"
  /\ \E i \in 1..Len(cmds) : cmds[i].req = "adc_stop" /\ cmds[i].len > 0

C6_VhfStartProgramsTuner ==
  /\ (Started /\ lastRet = "OK" /\ mode_set = "VHF_MODE" /\ tuner # 0) =>
       /\ Programmed(cmds, TUNER_CLOCK, Pos(cmds, "tuner_start"))
       /\ Pos(cmds, "tuner_start") # 0
       /\ Pos(cmds, "tuner_start") < Pos(cmds, "adc_start")
  /\ mode_set = "HF_MODE" => tuner = 0

\* C7: when rf103_start_streaming or rf103_stop_streaming fails after it has
\* changed the device, the status becomes FAILED.
C7_FailureSetsFailed ==
  ((Started \/ Stopping) /\ lastRet = "ERR"
     /\ \E i \in 1..Len(cmds) : cmds[i].ok /\ cmds[i].req \in {"I2CW", "STOPFX3"})
    => rf103_status = "STATUS_FAILED"

\* C8: a second rf103_stop_streaming directly after a successful one sends
\* no command to the device.
C8_SecondStopNoOp ==
  (Stopping /\ prevStopOk) => cmds = <<>>

\* C9: rf103_close on a handle that has been closed is rejected with an
\* error: no access to the released handle, no second release, no command.
C9_CloseAfterCloseRejected ==
  [][alive = "freed" =>
       /\ lastRet' = "ERR"
       /\ ~uaf' /\ ~doubleFree'
       /\ cmds' = <<>>]_vars

(***************************************************************************)
(* Properties of the GPIO functions.                                       *)
(***************************************************************************)
LedOps == {"rf103_led_on", "rf103_led_off", "rf103_led_toggle"}

\* the bits of g outside mask
Outside(g, mask) == BitAnd(g, BitNot8(mask))

\* a step of a GPIO function changes only the bits the function owns
GpioStepFrame ==
  LET changed == BitXor(gpio, gpio')
      a == lastArg'
  IN  alive = "open" =>
        /\ lastOp' \in LedOps =>
             IF Outside(a.p, LED_MASK) # 0
             THEN changed = 0 /\ cmds' = <<>> /\ lastRet' = "ERR"
             ELSE Outside(changed, a.p) = 0 /\ Has(cmds', "GPIOFX3")
        /\ lastOp' = "rf103_adc_dither" => Outside(changed, GPIO_DITHER) = 0
        /\ lastOp' = "rf103_adc_random" => Outside(changed, GPIO_RANDOM) = 0
        /\ lastOp' = "rf103_hf_attenuation" =>
             Outside(changed, BitOr(GPIO_SEL0, GPIO_SEL1)) = 0
        /\ lastOp' = "usb_device_gpio_set" => Outside(changed, a.m) = 0
        /\ (/\ lastOp = "usb_device_gpio_set"
            /\ lastOp' = "usb_device_gpio_set"
            /\ a.p = 0 /\ a.m = lastArg.m) =>
             Outside(gpio', a.m) = Outside(gpioBefore, a.m)

\* C10: each GPIO operation changes only its own bits of the shadow: the LED
\* functions only the LED bits of the pattern (a pattern with a non-LED bit
\* is rejected with no change and no GPIOFX3), rf103_adc_dither only DITHER,
\* rf103_adc_random only RANDOM, rf103_hf_attenuation only SEL0 and SEL1,
\* and gpio_set(p, m) followed by gpio_set(0, m) leaves the bits outside m
\* as they were.
C10_GpioFrame == [][GpioStepFrame]_vars

C10_Witness ==
  /\ lastOp = "rf103_led_toggle" /\ lastRet = "OK"
  /\ gpio # gpioBefore
  /\ BitAnd(gpio, GPIO_DITHER) # 0
  /\ BitAnd(gpio, GPIO_SEL0) # 0


\* C11: rf103_hf_attenuation accepts exactly 0, 10 and 20 dB, with
\* (SEL0, SEL1) = (0,1), (1,1), (1,0) under the mask SEL0|SEL1; every other
\* attenuation returns an error, with the shadow unchanged and no command.
C11_HfAttenuationExact ==
  lastOp = "rf103_hf_attenuation" =>
    IF lastArg.p \in {0, 100, 200}
    THEN /\ cmds # <<>>
         /\ BitAnd(gpio, HfAttenuationMask) =
              (CASE lastArg.p = 0 -> GPIO_SEL1
                 [] lastArg.p = 100 -> GPIO_SEL0 + GPIO_SEL1
                 [] lastArg.p = 200 -> GPIO_SEL0)
         /\ Outside(gpio, HfAttenuationMask) =
              Outside(gpioBefore, HfAttenuationMask)
    ELSE lastRet = "ERR" /\ gpio = gpioBefore /\ cmds = <<>>

(***************************************************************************)
(* Firmware loader (firmware.c).  A 32-bit word is kept as its two 16-bit  *)
(* halves, so that sums wrap at 2^32 and the halves of an address are the  *)
(* wIndex and wValue of a control transfer.                                *)
(***************************************************************************)
MaxXferFail == 7        \* control transfers of one load that may fail

\* if (size < 10240)
MIN_IMAGE_SIZE == 10240
\* const uint8_t bRequest = 0xa0
bRequest == 160
\* const size_t max_write_size = 2 * 1024
max_write_size == 2048

W32(hi, lo) == [hi |-> hi, lo |-> lo]
Zero32 == W32(0, 0)

\* the sum that does not carry from the low half into the high half
Add32NoCarry(a, b) ==
  W32((a.hi + b.hi) % 65536, (a.lo + b.lo) % 65536)

\* a + b on uint32_t
Add32(a, b) ==
  LET lo == a.lo + b.lo
  IN  W32((a.hi + b.hi + lo \div 65536) % 65536, lo % 65536)

\* 4 * w on uint32_t: the byte offset of w words
Shl2(w) ==
  W32((4 * w.hi + (4 * w.lo) \div 65536) % 65536, (4 * w.lo) % 65536)

\* the magic of an image: 'C', 'Y', 0x1c, 0xb0
GoodHeader == <<67, 89, 28, 176>>

\* the words of a section list, as they lie in the file after the header:
\* loadSz, secStart, then the payload
RECURSIVE SectionWords(_)
SectionWords(secs) ==
  IF secs = <<>> THEN <<>>
  ELSE <<secs[1].loadSz, secs[1].secStart>> \o secs[1].payload
       \o SectionWords(Tail(secs))

\* the number of words the sections declare, headers included (-1: a
\* section declares 65536 words or more)
RECURSIVE DeclaredWords(_)
DeclaredWords(secs) ==
  IF secs = <<>> THEN 0
  ELSE LET rest == DeclaredWords(Tail(secs))
       IN  IF secs[1].loadSz.hi > 0 \/ rest < 0 THEN -1
           ELSE 2 + secs[1].loadSz.lo + rest

\* An image file of size bytes: the header, the sections, and the trailer
\* (terminator, entry address, checksum) at the word after the last section
\* when it lies inside the file.  Only the payload of the last section may
\* be written shorter than declared: the rest of it, as every byte the file
\* does not give, is zero.
MkImage(size, header, secs, entryAddr, checksum) ==
  LET d == DeclaredWords(secs)
      fits == d >= 0 /\ 4 * (1 + d + 3) <= size
  IN  [size |-> size, header |-> header, secs |-> secs,
       words |-> SectionWords(secs),
       trailerAt |-> IF fits THEN 1 + d ELSE 0,
       trailer |-> IF fits THEN <<Zero32, entryAddr, checksum>> ELSE <<>>]

\* the 32-bit word at word index k of the image (index 0 is the header)
WordAt(image, k) ==
  IF k <= Len(image.words) THEN image.words[k]
  ELSE IF image.trailer # <<>> /\ k >= image.trailerAt
          /\ k < image.trailerAt + 3
       THEN image.trailer[k - image.trailerAt + 1]
       ELSE Zero32

\* The builds of the library: pointers of 64 bits, or of 32 bits with the
\* image low or high in the address space.  current + loadSz past the end
\* of the image is undefined: a 64-bit build compares the plain address, a
\* 32-bit build the address modulo 2^32.
Builds == {[ptr |-> 64, high |-> FALSE], [ptr |-> 32, high |-> FALSE],
           [ptr |-> 32, high |-> TRUE]}

\* if (current + loadSz >= end - 2), with current at word index cur
SectionTooBig(image, cur, loadSz, build) ==
  IF build.ptr = 64
  THEN loadSz.hi > 0 \/ 4 * cur + 4 * loadSz.lo >= image.size - 8
  ELSE LET off == Shl2(loadSz)
       IN  IF off.hi = 0 THEN 4 * cur + off.lo >= image.size - 8
           ELSE ~build.high

\* while (loadSz--) checksum += *current++, over n words from index from
RECURSIVE PayloadSum(_, _, _)
PayloadSum(image, from, n) ==
  IF n = 0 THEN Zero32
  ELSE IF n = 1 THEN WordAt(image, from)
  ELSE LET h == n \div 2
       IN  Add32(PayloadSum(image, from, h),
                 PayloadSum(image, from + h, n - h))

\* the section loop of validate_image and the checks after it
RECURSIVE ValidateSections(_, _, _, _)
ValidateSections(image, build, cur, checksum) ==
  LET loadSz == WordAt(image, cur)
  IN  IF loadSz = Zero32
      THEN LET expected_checksum == WordAt(image, cur + 2)
           IN  [ret |-> IF checksum = expected_checksum THEN "OK" ELSE "ERR",
                why |-> IF checksum = expected_checksum THEN "none"
                        ELSE "checksum",
                checksum |-> checksum,
                longer |-> 4 * (cur + 3) # image.size,
                readPast |-> 4 * (cur + 3) > image.size]
      ELSE IF SectionTooBig(image, cur + 2, loadSz, build)
      THEN [ret |-> "ERR", why |-> "loadSz", checksum |-> checksum,
            longer |-> FALSE, readPast |-> 4 * (cur + 2) > image.size]
      ELSE IF loadSz.hi > 0 \/ 4 * (cur + 2 + loadSz.lo) > image.size
      THEN [ret |-> "CRASH", why |-> "read past the image",
            checksum |-> checksum, longer |-> FALSE, readPast |-> TRUE]
      ELSE ValidateSections(image, build, cur + 2 + loadSz.lo,
                            Add32(checksum,
                                  PayloadSum(image, cur + 2, loadSz.lo)))

\* a size check that also turns away the smallest image
ImageTooSmallLe(size) == size <= MIN_IMAGE_SIZE

\* if (size < 10240)
ImageTooSmall(size) == size < MIN_IMAGE_SIZE

\* the three header checks of validate_image
HeaderBad(header) ==
  ~(header[1] = 67 /\ header[2] = 89) \/ header[3] # 28 \/ header[4] # 176

validate_image(image, build) ==
  IF ImageTooSmall(image.size)
  THEN [ret |-> "ERR", why |-> "size", checksum |-> Zero32, longer |-> FALSE,
        readPast |-> FALSE]
  ELSE IF HeaderBad(image.header)
  THEN [ret |-> "ERR", why |-> "header", checksum |-> Zero32,
        longer |-> FALSE, readPast |-> FALSE]
  ELSE ValidateSections(image, build, 1, Zero32)

\* one control transfer of transfer_image and what libusb returned for it:
\* "ok" (all of wLength), "short" (fewer bytes) or "err" (negative)
Xfer(wValue, wIndex, data, wLength, ret) ==
  [req |-> bRequest, wValue |-> wValue, wIndex |-> wIndex, data |-> data,
   wLength |-> wLength, ret |-> ret]

XferOutcome(log, failAt, kind) ==
  IF Len(log) + 1 = failAt THEN kind ELSE "ok"

\* a chunk size with no cap
ChunkLengthAll(nleft) == nleft

\* wLength = nleft > max_write_size ? max_write_size : nleft
ChunkLength(nleft) == IF nleft > max_write_size THEN max_write_size ELSE nleft

\* the for loop over the chunks of one section: data is the byte offset of
\* the chunk in the image, the address is the same for every chunk
RECURSIVE TransferChunks(_, _, _, _, _, _)
TransferChunks(log, address, data, nleft, failAt, kind) ==
  IF nleft = 0 THEN [ret |-> 0, log |-> log]
  ELSE LET wLength == ChunkLength(nleft)
           out == XferOutcome(log, failAt, kind)
           l == Append(log, Xfer(address.lo, address.hi, data, wLength, out))
       IN  IF out # "ok" THEN [ret |-> -1, log |-> l]
           ELSE TransferChunks(l, address, data + wLength, nleft - wLength,
                               failAt, kind)

\* a loader that gives up when the entry transfer fails
EntryJumpFatal(log, entryAddr, failAt, kind) ==
  LET out == XferOutcome(log, failAt, kind)
  IN  [ret |-> IF out = "ok" THEN 0 ELSE -1,
       log |-> Append(log, Xfer(entryAddr.lo, entryAddr.hi, 0, 0, out))]

\* the transfer after the sections: a failure is only a warning
EntryJump(log, entryAddr, failAt, kind) ==
  LET out == XferOutcome(log, failAt, kind)
  IN  [ret |-> 0,
       log |-> Append(log, Xfer(entryAddr.lo, entryAddr.hi, 0, 0, out))]

\* the section loop of transfer_image, with current at word index cur
RECURSIVE TransferSections(_, _, _, _, _)
TransferSections(image, log, cur, failAt, kind) ==
  LET loadSz == WordAt(image, cur)
  IN  IF loadSz = Zero32
      THEN EntryJump(log, WordAt(image, cur + 1), failAt, kind)
      ELSE LET r == TransferChunks(log, WordAt(image, cur + 1),
                                   4 * (cur + 2), Shl2(loadSz).lo,
                                   failAt, kind)
           IN  IF r.ret < 0 THEN r
               ELSE TransferSections(image, r.log, cur + 2 + loadSz.lo,
                                     failAt, kind)

transfer_image(image, failAt, kind) ==
  TransferSections(image, <<>>, 1, failAt, kind)

\* the sum of a list of words, taken half by half with one carry at the end
RECURSIVE SumHalf(_, _)
SumHalf(ws, high) ==
  IF ws = <<>> THEN 0
  ELSE (IF high THEN ws[1].hi ELSE ws[1].lo) + SumHalf(Tail(ws), high)

Sum32(ws) ==
  W32((SumHalf(ws, TRUE) + SumHalf(ws, FALSE) \div 65536) % 65536,
      SumHalf(ws, FALSE) % 65536)

\* all payload words the sections of an image give
RECURSIVE PayloadWords(_)
PayloadWords(secs) ==
  IF secs = <<>> THEN <<>>
  ELSE secs[1].payload \o PayloadWords(Tail(secs))

\* the images offered to the loader
Section(loadSz, secStart, payload) ==
  [loadSz |-> loadSz, secStart |-> secStart, payload |-> payload]

ImageSizes == {MIN_IMAGE_SIZE - 1, MIN_IMAGE_SIZE, MIN_IMAGE_SIZE + 1,
               MIN_IMAGE_SIZE + 4}

Headers == {GoodHeader, <<66, 89, 28, 176>>, <<67, 88, 28, 176>>,
            <<67, 89, 29, 176>>, <<67, 89, 28, 177>>}

SecStarts == {W32(16384, 256), W32(1, 0)}

SectionLists ==
  {<<>>}
  \cup {<<Section(W32(0, 1), a, <<w>>)>> :
          a \in SecStarts, w \in {W32(0, 7), W32(65535, 65535)}}
  \cup {<<Section(W32(0, 1), W32(16384, 256), <<W32(65535, 65535)>>),
          Section(W32(0, 2), W32(1, 0), <<W32(0, 2), W32(0, 5)>>)>>,
        <<Section(W32(0, 2), W32(1, 0), <<W32(0, 65535), W32(0, 1)>>)>>}
  \cup {<<Section(W32(0, n), W32(16384, 256), <<W32(0, 9)>>)>> :
          n \in {513, 1024, 2553, 2554, 2555, 2556}}
  \cup {<<Section(n, W32(1, 0), <<W32(0, 9)>>)>> :
          n \in {W32(1, 0), W32(16384, 0), W32(65535, 65535)}}

Images ==
  UNION {{MkImage(size, header, secs, W32(16384, 0), checksum) :
            size \in ImageSizes, header \in Headers,
            checksum \in {Sum32(PayloadWords(secs)), W32(0, 3)}} :
         secs \in SectionLists}

FwFrame ==
  UNCHANGED <<handleVars, tunerVars, gpio, ringVars, todo, pend, uaf,
              doubleFree, histVars>>

\* load_image has read the file into memory
load_image_read ==
  /\ alive = "unopened" /\ pc = "idle" /\ lastOp = "none"
  /\ \E image \in Images, build \in Builds :
       OpDone("load_image", [image |-> image, build |-> build], "OK", <<>>)
  /\ pc' = "validate_image"
  /\ crashed' = crashed
  /\ FwFrame

\* what validate_image may return: the checksum word is compared as it
\* was read, and when bytes of it lie past the end of the image their value,
\* and so the outcome of the comparison, is anything
ValidateRets(r) ==
  IF r.readPast /\ r.ret # "CRASH" /\ r.why \in {"none", "checksum"}
  THEN {"OK", "ERR"}
  ELSE {r.ret}

\* load_image calls validate_image
load_image_validate ==
  /\ pc = "validate_image"
  /\ \E r \in {validate_image(lastArg.image, lastArg.build)} :
       \E ret \in ValidateRets(r) :
         /\ OpDone("validate_image",
                   [image |-> lastArg.image, build |-> lastArg.build,
                    readPast |-> r.readPast], ret, <<>>)
         /\ pc' = IF ret = "OK" THEN "transfer_image" ELSE "idle"
         /\ crashed' = (ret = "CRASH")
  /\ FwFrame

\* load_image calls transfer_image on an image that validate_image accepted
load_image_transfer ==
  /\ pc = "transfer_image"
  /\ \E failAt \in 0..MaxXferFail, kind \in {"short", "err"} :
       LET r == transfer_image(lastArg.image, failAt, kind)
       IN  OpDone("transfer_image", lastArg,
                  IF r.ret = 0 THEN "OK" ELSE "ERR", r.log)
  /\ pc' = "idle"
  /\ crashed' = crashed
  /\ FwFrame

NextFw ==
  \/ load_image_read
  \/ load_image_validate
  \/ load_image_transfer

SpecFw == Init /\ [][NextFw]_vars

(***************************************************************************)
(* Properties of the firmware loader.                                      *)
(***************************************************************************)
Validated == lastOp = "validate_image"
Transferred == lastOp = "transfer_image"

\* the image has the magic, the least size, and room for all its sections,
\* the terminator, the entry address and the checksum
WellFormed(image) ==
  /\ image.size >= 10240
  /\ image.header = <<67, 89, 28, 176>>
  /\ image.trailer # <<>>

\* C12: validate_image rejects every image shorter than 10240 bytes and
\* every image of at least 10240 bytes whose first four bytes are not
\* 'C', 'Y', 0x1C, 0xB0; an image of 10240 bytes is not rejected for its
\* size.
C12_SizeAndHeader ==
  Validated =>
    LET image == lastArg.image
    IN  /\ image.size < 10240 => lastRet = "ERR"
        /\ (image.size >= 10240 /\ image.header # <<67, 89, 28, 176>>) =>
             lastRet = "ERR"
        /\ image.size >= 10240 =>
             validate_image(image, lastArg.build).why # "size"
        /\ (/\ WellFormed(image)
            /\ image.trailer[3] = Sum32(PayloadWords(image.secs))) =>
             lastRet = "OK"

C12_Witness ==
  /\ Validated
  /\ lastArg.image.size = 10239
  /\ lastArg.image.header = <<67, 89, 28, 176>>
  /\ lastArg.image.trailer # <<>>
  /\ lastRet = "ERR"

\* C13: a well-formed image is accepted exactly when its trailing checksum
\* word is the sum modulo 2^32 of all payload words of all sections; with a
\* single payload word W the computed checksum is W.
C13_ChecksumIff ==
  (Validated /\ WellFormed(lastArg.image)) =>
    LET image == lastArg.image
        payload == PayloadWords(image.secs)
        declared == DeclaredWords(image.secs) - 2 * Len(image.secs)
    IN  /\ lastRet = "OK" <=> image.trailer[3] = Sum32(payload)
        /\ lastRet \in {"OK", "ERR"}
        /\ declared = 1 =>
             validate_image(image, lastArg.build).checksum = payload[1]

C13_Witness ==
  /\ Validated /\ WellFormed(lastArg.image) /\ lastRet = "OK"
  /\ Len(lastArg.image.secs) = 2
  /\ lastArg.image.trailer[3] = W32(0, 6)

\* the sections up to the j-th declare more words than lie before the
\* trailer of the image
ExtendsPastTrailer(image, j) ==
  LET d == DeclaredWords(SubSeq(image.secs, 1, j))
  IN  d < 0 \/ 4 * (1 + d) > image.size - 8

\* C14: validate_image rejects every image in which a declared section
\* extends past byte offset size - 8, and rejects no image for its bounds
\* when sections, terminator, entry address and checksum fit in the image.
C14_SectionBounds ==
  (/\ Validated
   /\ lastArg.image.size >= 10240
   /\ lastArg.image.header = <<67, 89, 28, 176>>) =>
    LET image == lastArg.image
    IN  /\ (\E j \in 1..Len(image.secs) : ExtendsPastTrailer(image, j)) =>
             lastRet = "ERR"
        /\ image.trailer # <<>> =>
             validate_image(image, lastArg.build).why # "loadSz"

\* the byte offset in the file of the payload of section j
PayloadStart(image, j) ==
  4 * (1 + DeclaredWords(SubSeq(image.secs, 1, j - 1)) + 2)

\* the bytes of the payload of section j
PayloadBytes(image, j) ==
  LET s == PayloadStart(image, j)
  IN  s..(s + 4 * image.secs[j].loadSz.lo - 1)

\* the bytes a transfer carries
XferBytes(x) == x.data..(x.data + x.wLength - 1)

\* C15: transfer_image sends the sections in file order, each payload as
\* 0xA0 transfers of at most 2048 bytes whose concatenation is the payload,
\* and after all sections exactly one zero-length 0xA0 transfer with the
\* entry address (wValue the low, wIndex the high 16 bits), as the last
\* transfer.
C15_TransferOrder ==
  (Transferred /\ lastRet = "OK") =>
    LET image == lastArg.image
        n == Len(cmds)
        chunks == SubSeq(cmds, 1, n - 1)
        entryAddr == WordAt(image, 2 + DeclaredWords(image.secs))
    IN  /\ n >= 1
        /\ \A i \in 1..n : cmds[i].req = 160
        /\ cmds[n].wLength = 0
        /\ cmds[n].wValue = entryAddr.lo /\ cmds[n].wIndex = entryAddr.hi
        /\ \A i \in 1..(n - 1) :
             /\ cmds[i].wLength >= 1 /\ cmds[i].wLength <= 2048
             /\ \E j \in 1..Len(image.secs) :
                  XferBytes(cmds[i]) \subseteq PayloadBytes(image, j)
        /\ \A i \in 1..(n - 2) :
             cmds[i].data + cmds[i].wLength <= cmds[i + 1].data
        /\ UNION {XferBytes(chunks[i]) : i \in 1..(n - 1)} =
           UNION {PayloadBytes(image, j) : j \in 1..Len(image.secs)}

C15_Witness ==
  /\ Transferred /\ lastRet = "OK"
  /\ Len(cmds) = 6
  /\ \A i \in 1..6 : cmds[i].ret = "ok"
  /\ cmds[5].wLength = 2024

\* C16: transfer_image fails exactly when a payload chunk transfer returns
\* an error or fewer bytes than asked, and then issues no further transfer,
\* so no entry jump; a failure of the entry jump still gives success.
C16_TransferFailure ==
  Transferred =>
    LET n == Len(cmds)
        bad == {i \in 1..n : cmds[i].wLength > 0 /\ cmds[i].ret # "ok"}
    IN  /\ lastRet = "ERR" <=> bad # {}
        /\ bad # {} =>
             /\ bad = {n}
             /\ \A i \in 1..n : cmds[i].wLength > 0
        /\ (cmds[n].wLength = 0 /\ cmds[n].ret # "ok") => lastRet = "OK"

C16_Witness ==
  /\ Transferred /\ lastRet = "ERR"
  /\ Len(cmds) = 2
  /\ cmds[1].ret = "ok" /\ cmds[2].ret = "short"

\* C31: validate_image never reads a byte at or beyond the end of the
\* image buffer, for every image of at least 10240 bytes whatever its
\* contents and whether or not its size is a multiple of 4
C31_NoReadPastEnd ==
  (Validated /\ lastArg.image.size >= 10240) => ~lastArg.readPast

(***************************************************************************)
(* Clock synthesizer arithmetic (clock_source.c).  A frequency is a whole  *)
(* number of Hz and a double is taken as the exact fraction it stands for. *)
(* The fractions outgrow the integers of the checker, so a large natural   *)
(* number is kept as the sequence of its digits in base 10000, lowest      *)
(* first, with no leading zero digit (zero is the empty sequence).         *)
(***************************************************************************)
\* static const double SI5351_FREQ = 27e6
SI5351_FREQ == 27000000
\* static const double SI5351_FREQ_CORR = 0.9999314, in units of 1e-7
SI5351_FREQ_CORR == 9999314
\* static const uint32_t SI5351_MAX_DENOMINATOR = 1048575
SI5351_MAX_DENOMINATOR == 1048575

RECURSIVE BigOf(_)
BigOf(n) == IF n = 0 THEN <<>> ELSE <<n % 10000>> \o BigOf(n \div 10000)

\* the value of a number that fits the integers of the checker
RECURSIVE BigToInt(_)
BigToInt(x) == IF x = <<>> THEN 0 ELSE x[1] + 10000 * BigToInt(Tail(x))

RECURSIVE BigTrim(_)
BigTrim(x) ==
  IF x = <<>> THEN <<>>
  ELSE IF x[Len(x)] = 0 THEN BigTrim(SubSeq(x, 1, Len(x) - 1))
  ELSE x

Digit1(x) == IF x = <<>> THEN 0 ELSE x[1]
Rest(x) == IF x = <<>> THEN <<>> ELSE Tail(x)

RECURSIVE BigAddC(_, _, _)
BigAddC(x, y, carry) ==
  IF x = <<>> /\ y = <<>>
  THEN IF carry = 0 THEN <<>> ELSE <<carry>>
  ELSE LET s == Digit1(x) + Digit1(y) + carry
       IN  <<s % 10000>> \o BigAddC(Rest(x), Rest(y), s \div 10000)

BigAdd(x, y) == BigAddC(x, y, 0)

\* x - y for x >= y
RECURSIVE BigSubB(_, _, _)
BigSubB(x, y, borrow) ==
  IF x = <<>> THEN <<>>
  ELSE LET s == x[1] - Digit1(y) - borrow
       IN  IF s < 0 THEN <<s + 10000>> \o BigSubB(Tail(x), Rest(y), 1)
           ELSE <<s>> \o BigSubB(Tail(x), Rest(y), 0)

BigSub(x, y) == BigTrim(BigSubB(x, y, 0))

\* -1, 0, 1 as x is less than, equal to, greater than y
RECURSIVE BigCmpFrom(_, _, _)
BigCmpFrom(x, y, i) ==
  IF i = 0 THEN 0
  ELSE IF x[i] < y[i] THEN -1
  ELSE IF x[i] > y[i] THEN 1
  ELSE BigCmpFrom(x, y, i - 1)

BigCmp(x, y) ==
  IF Len(x) < Len(y) THEN -1
  ELSE IF Len(x) > Len(y) THEN 1
  ELSE BigCmpFrom(x, y, Len(x))

BigLess(x, y) == BigCmp(x, y) < 0
BigLeq(x, y) == BigCmp(x, y) <= 0

\* x * d for a d below 2^17
RECURSIVE BigMulSmallC(_, _, _)
BigMulSmallC(x, d, carry) ==
  IF x = <<>> THEN BigOf(carry)
  ELSE LET s == x[1] * d + carry
       IN  <<s % 10000>> \o BigMulSmallC(Tail(x), d, s \div 10000)

BigMulSmall(x, d) == BigTrim(BigMulSmallC(x, d, 0))

RECURSIVE BigMul(_, _)
BigMul(x, y) ==
  IF x = <<>> \/ y = <<>> THEN <<>>
  ELSE LET rest == BigMul(Tail(x), y)
       IN  BigAdd(BigMulSmall(y, x[1]),
                  IF rest = <<>> THEN <<>> ELSE <<0>> \o rest)

\* the whole part of x / y for y > 0, when it is below 2^17: the largest q
\* with q * y <= x, found bit by bit from p down
RECURSIVE BigDivBits(_, _, _, _)
BigDivBits(x, y, p, q) ==
  IF p = 0 THEN q
  ELSE IF BigLeq(BigMulSmall(y, q + p), x)
       THEN BigDivBits(x, y, p \div 2, q + p)
       ELSE BigDivBits(x, y, p \div 2, q)

BigDiv(x, y) == BigDivBits(x, y, 65536, 0)

BigMod(x, y) == BigSub(x, BigMulSmall(y, BigDiv(x, y)))

BigAbsDiff(x, y) == IF BigLess(x, y) THEN BigSub(y, x) ELSE BigSub(x, y)

\* 2^32, and the value a uint32_t keeps of x, for x below 2^49
Two32 == <<7296, 9496, 42>>
U32(x) == IF BigLess(x, Two32) THEN x ELSE BigMod(x, Two32)

MaxClkFail == 4   \* I2C writes of one clock_source_set_clock that may fail

\* m * h[1] + h[0] before it is stored in a uint32_t (h = <<h[0], h[1]>>)
Linear(m, h) == BigAdd(BigMulSmall(h[2], m), h[1])

\* The loops of rational_approximation run over a record of the variables
\* of the function: n0 / vd is f0, the fraction to approach; fn / fd is f,
\* the fraction still to expand; h and k are the last two convergents; b, c
\* are *b, *c; dn / dd is delta; wrapped tells whether a numerator or a
\* denominator has passed 2^32 before it was stored.
\* The body of the for loop over m, for one m.
SemiStep(s) ==
  LET hm == U32(Linear(s.m, s.h))
      km == U32(Linear(s.m, s.k))
      w == \/ s.wrapped
           \/ ~BigLess(Linear(s.m, s.h), Two32)
           \/ ~BigLess(Linear(s.m, s.k), Two32)
      num == BigAbsDiff(BigMul(hm, s.vd), BigMul(s.n0, km))
      den == BigMul(km, s.vd)
  IN  IF BigLess(BigOf(SI5351_MAX_DENOMINATOR), km)
      THEN [s EXCEPT !.wrapped = w, !.m = s.an + 1]
      ELSE IF km # <<>> /\ BigLess(BigMul(num, s.dd), BigMul(s.dn, den))
      THEN [s EXCEPT !.b = hm, !.c = km, !.dn = num, !.dd = den,
                     !.wrapped = w, !.m = s.m + 1]
      ELSE [s EXCEPT !.wrapped = w, !.m = s.m + 1]

\* for (uint32_t m = (an + 1) / 2; m <= an; ++m)
RECURSIVE SemiLoop(_)
SemiLoop(s) ==
  IF s.m > s.an THEN s
  ELSE CHOOSE r \in {SemiLoop(t) : t \in {SemiStep(s)}} : TRUE

\* the body of the for loop over i, for one i
ConvStep(s) ==
  LET an == BigDiv(s.fd, s.fn)
      s1 == SemiLoop([s EXCEPT !.an = an, !.m = (an + 1) \div 2])
      w == \/ s1.wrapped
           \/ ~BigLess(Linear(an, s.h), Two32)
           \/ ~BigLess(Linear(an, s.k), Two32)
  IN  [s1 EXCEPT !.i = s.i + 1,
                 !.fn = BigSub(s.fd, BigMulSmall(s.fn, an)),
                 !.fd = s.fn,
                 !.h = <<s.h[2], U32(Linear(an, s.h))>>,
                 !.k = <<s.k[2], U32(Linear(an, s.k))>>,
                 !.wrapped = w]

\* for (int i = 0; i < 100; ++i) { if (f <= epsilon) break; ... }
RECURSIVE ConvLoop(_)
ConvLoop(s) ==
  IF s.i >= 100 \/ BigLeq(BigMulSmall(s.fn, 100000), s.fd) THEN s
  ELSE CHOOSE r \in {ConvLoop(t) : t \in {ConvStep(s)}} : TRUE

\* rational_approximation of value = vn / vd: a, b, c, and whether a
\* numerator or denominator has passed 2^32 on the way
rational_approximation(vn, vd) ==
  LET a == BigDiv(vn, vd)
      n0 == BigSub(vn, BigMulSmall(vd, a))
      s == ConvLoop([n0 |-> n0, vd |-> vd, i |-> 0, fn |-> n0, fd |-> vd,
                     h |-> <<BigOf(1), <<>> >>, k |-> << <<>>, BigOf(1)>>,
                     b |-> <<>>, c |-> BigOf(1), dn |-> n0, dd |-> vd,
                     wrapped |-> FALSE, an |-> 0, m |-> 0])
  IN  [a |-> a, b |-> BigToInt(s.b), c |-> BigToInt(s.c),
       wrapped |-> s.wrapped]

\* feedback_ms = vco_frequency / (crystal_frequency / frequency_correction)
\* as the fraction <<numerator, denominator>>
FeedbackMs(vco_frequency) ==
  <<BigMul(BigOf(vco_frequency), BigOf(SI5351_FREQ_CORR)),
    BigMul(BigOf(SI5351_FREQ), BigOf(10000000))>>

\* the values clock_source_set_clock computes for a frequency before it
\* writes to the device, or the test that turns the frequency away
SetClockValues(frequency) ==
  LET rd == RDivLoop(frequency, 0)
      output_ms == OutputMs(rd.r_frequency)
      fb == FeedbackMs(rd.r_frequency * output_ms)
      abc == rational_approximation(fb[1], fb[2])
  IN  IF rd.r_frequency < 1000000
      THEN [why |-> "too low", rdiv |-> rd.rdiv]
      ELSE IF output_ms < 4 \/ output_ms > 2048
      THEN [why |-> "output_ms", rdiv |-> rd.rdiv, output_ms |-> output_ms]
      ELSE [why |-> "ok", rdiv |-> rd.rdiv, r_frequency |-> rd.r_frequency,
            output_ms |-> output_ms, a |-> abc.a, b |-> abc.b, c |-> abc.c,
            wrapped |-> abc.wrapped]

Frequencies == {0, 3900, 3906, 3907, 7813, 499999, 500000, 999999, 1000000,
                1234567, 2000000, 64000000, 128000000, 225000000, 225000001}

ClockIndexes == {0, 1, 2}

\* SetClockValues over the frequencies of the model, computed once
ClockValues == [frequency \in Frequencies |-> SetClockValues(frequency)]

RECURSIVE Pow2(_)
Pow2(n) == IF n = 0 THEN 1 ELSE 2 * Pow2(n - 1)

\* (x >> shift) & 0xff of a 32-bit x
ByteOf(x, shift) == (x \div Pow2(shift)) % 256

\* configure_clock_input_and_pll: the eight bytes of the feedback group
configure_clock_input_and_pll(a, b, c) ==
  LET b_over_c == (128 * b) \div c
      msn_p1 == 128 * a + b_over_c - 512
      msn_p2 == 128 * b - c * b_over_c
      msn_p3 == c
  IN  <<ByteOf(msn_p3, 8), ByteOf(msn_p3, 0),
        (msn_p1 \div 65536) % 4, ByteOf(msn_p1, 8), ByteOf(msn_p1, 0),
        16 * ((msn_p3 \div 65536) % 16) + ((msn_p2 \div 65536) % 16),
        ByteOf(msn_p2, 8), ByteOf(msn_p2, 0)>>

\* configure_clock_output: the eight bytes of the output group; each is a
\* uint8_t, so rdiv << 5 keeps its low eight bits
configure_clock_output(output_ms, rdiv) ==
  LET ms_p1 == 128 * output_ms - 512
      ms_p2 == 0
      ms_p3 == 1
  IN  <<ByteOf(ms_p3, 8), ByteOf(ms_p3, 0),
        (32 * rdiv + ((ms_p1 \div 65536) % 4)) % 256,
        ByteOf(ms_p1, 8), ByteOf(ms_p1, 0),
        16 * ((ms_p3 \div 65536) % 16) + ((ms_p2 \div 65536) % 16),
        ByteOf(ms_p2, 8), ByteOf(ms_p2, 0)>>

\* pll_reset and clock_control of reset_pll_and_clock_power_up
PllResetValue(index) ==
  IF index = 0 THEN SI5351_VALUE_PLLA_RESET ELSE SI5351_VALUE_PLLB_RESET

ClockControlValue(index) ==
  SI5351_VALUE_MS_INT + SI5351_VALUE_CLK_SRC_MS + SI5351_VALUE_CLK_DRV_8MA
  + (IF index = 0 THEN SI5351_VALUE_MS_SRC_PLLA ELSE SI5351_VALUE_MS_SRC_PLLB)

\* the bytes of the writes of clock_source_set_clock, in the order made
SetClockData(index, v) ==
  <<configure_clock_input_and_pll(v.a, v.b, v.c),
    configure_clock_output(v.output_ms, v.rdiv),
    <<PllResetValue(index)>>, <<ClockControlValue(index)>> >>

\* the writes of a call, each with the bytes it carries
WithData(log, data) ==
  [i \in 1..Len(log) |->
     [req |-> log[i].req, reg |-> log[i].reg, len |-> log[i].len,
      ok |-> log[i].ok, data |-> data[i]]]

\* a call of clock_source_set_clock on an open device
set_clock ==
  /\ Callable
  /\ \E frequency \in Frequencies, index \in ClockIndexes,
        failAt \in 0..MaxClkFail :
       \E r \in {clock_source_set_clock(<<>>, index, frequency, failAt)} :
         /\ lastOp' = "clock_source_set_clock"
         /\ lastArg' = [index |-> index, frequency |-> frequency]
         /\ lastRet' = IF r.ret = 0 THEN "OK" ELSE "ERR"
         /\ cmds' = IF r.log = <<>> THEN <<>>
                    ELSE WithData(r.log,
                                  SetClockData(index, ClockValues[frequency]))
         /\ clk' = IF index \in {0, 1} THEN ClockValues[frequency]
                   ELSE [why |-> "index"]
  /\ prevStopOk' = FALSE
  /\ gpioBefore' = gpio
  /\ UNCHANGED <<handleVars, tunerVars, gpio, ringVars, callerVars, ubVars,
                 histVars, tun>>

NextClock ==
  \/ rf103_open
  \/ rf103_close
  \/ set_clock

SpecClock == Init /\ [][NextClock]_vars

(***************************************************************************)
(* Properties of clock_source_set_clock                                    *)
(***************************************************************************)
\* the last operation was clock_source_set_clock with a valid clock index
ClockCall ==
  lastOp = "clock_source_set_clock" /\ lastArg.index \in {0, 1}

\* f * 2^R >= 1 MHz
ReachesMHz(f, R) == f >= 1000000 \/ f * Pow2(R) >= 1000000

\* every I2C write of the call went through and the call returned 0
ClockSucceeds ==
  /\ clk.why = "ok"
  /\ lastRet = "OK" <=> \A i \in 1..Len(cmds) : cmds[i].ok

\* the call was turned away as too low before any I2C write
ClockTooLow == clk.why = "too low" /\ lastRet = "ERR" /\ cmds = <<>>

\* C17: clock_source_set_clock picks R as the smallest value in 0..7 with
\* f_req * 2^R >= 1 MHz, rejects the request as too low exactly when no R
\* in 0..7 satisfies this, and never uses R greater than 7.
C17_SmallestR ==
  ClockCall =>
    LET f == lastArg.frequency
        Rs == {R \in 0..7 : ReachesMHz(f, R)}
    IN  /\ clk.why = "too low" <=> Rs = {}
        /\ clk.why # "too low" =>
             /\ clk.rdiv <= 7
             /\ clk.rdiv \in Rs
             /\ \A R \in Rs : clk.rdiv <= R

\* C18 as stated: 999,999 Hz succeeds with R = 1, 500,000 Hz succeeds with
\* R = 2, and 3,900 Hz fails as too low.
C18_ExamplesAsStated ==
  ClockCall =>
    /\ lastArg.frequency = 999999 => ClockSucceeds /\ clk.rdiv = 1
    /\ lastArg.frequency = 500000 => ClockSucceeds /\ clk.rdiv = 2
    /\ lastArg.frequency = 3900 => ClockTooLow

\* C18: 999,999 Hz succeeds with R = 1, 500,000 Hz succeeds with R = 1
\* (one doubling reaches 1 MHz exactly), 499,999 Hz succeeds with R = 2,
\* and 3,900 Hz fails as too low.
C18_Examples ==
  ClockCall =>
    /\ lastArg.frequency = 999999 => ClockSucceeds /\ clk.rdiv = 1
    /\ lastArg.frequency = 500000 => ClockSucceeds /\ clk.rdiv = 1
    /\ lastArg.frequency = 499999 => ClockSucceeds /\ clk.rdiv = 2
    /\ lastArg.frequency = 3900 => ClockTooLow

C18_Witness ==
  /\ ClockCall
  /\ lastArg.frequency = 500000
  /\ lastRet = "OK"
  /\ Len(cmds) = 4
  /\ clk.rdiv = 1

\* an even output divider between 4 and 2048 that keeps the VCO at or
\* below 900 MHz for the frequency f_r
OutFits(OUT, f_r) ==
  /\ OUT % 2 = 0
  /\ OUT >= 4
  /\ OUT <= 2048
  /\ f_r <= SI5351_MAX_VCO_FREQ \div OUT

\* C19: for an accepted frequency the output divider OUT is even, between 4
\* and 2048, with OUT * f_r <= 900 MHz where f_r = f_req * 2^R, and is the
\* largest even integer with that bound; a request for which no such OUT
\* exists is rejected before any I2C write.
C19_OutputDivider ==
  ClockCall /\ clk.why \in {"ok", "output_ms"} =>
    LET f_r == lastArg.frequency * Pow2(clk.rdiv)
    IN  /\ clk.why = "ok" <=> \E OUT \in 4..2048 : OutFits(OUT, f_r)
        /\ clk.why = "ok" =>
             /\ OutFits(clk.output_ms, f_r)
             /\ \A OUT \in 4..2048 : OutFits(OUT, f_r) => OUT <= clk.output_ms
        /\ clk.why = "output_ms" => lastRet = "ERR" /\ cmds = <<>>

C19_Witness ==
  /\ ClockCall
  /\ clk.why = "ok"
  /\ lastArg.frequency = 1234567
  /\ clk.output_ms = 728
  /\ lastRet = "OK"

\* C20: for an accepted frequency, a, b, c satisfy 1 <= c <= 1,048,575 and
\* |a + b/c - FB| < 1/c with FB = OUT * f_r / (f_xtal / correction), and no
\* convergent numerator or denominator wraps around 32 bits on the way.
C20_FeedbackApproximation ==
  ClockCall /\ clk.why = "ok" =>
    LET FB == FeedbackMs(clk.r_frequency * clk.output_ms)
        abc == BigAdd(BigMul(BigOf(clk.a), BigOf(clk.c)), BigOf(clk.b))
    IN  /\ clk.c >= 1
        /\ clk.c <= 1048575
        /\ BigLess(BigAbsDiff(BigMul(abc, FB[2]), BigMul(FB[1], BigOf(clk.c))),
                   FB[2])
        /\ ~clk.wrapped

(***************************************************************************)
(* Tuner instances of a device handle                                      *)
(***************************************************************************)
\* C30: across any sequence of rf103_set_rf_mode calls at most one tuner
\* instance is live at a time and none is lost: the only live tuner is the
\* one this->tuner points to, and none is live once the handle is closed.
C30_OneTunerLive ==
  /\ Cardinality(liveTuners) <= 1
  /\ alive = "open" => liveTuners \subseteq {tuner}
  /\ alive = "freed" => liveTuners = {}

\* C29: after transfer_image succeeds, every payload byte at offset k of a
\* section with start address A was sent in a transfer addressed to A + k:
\* the address of a chunk (wValue the low, wIndex the high 16 bits) is the
\* section address plus the number of bytes of the section already sent.
C29_ChunkAddresses ==
  (Transferred /\ lastRet = "OK") =>
    LET image == lastArg.image
    IN  \A i \in 1..Len(cmds), j \in 1..Len(image.secs) :
          (cmds[i].wLength > 0 /\
           XferBytes(cmds[i]) \subseteq PayloadBytes(image, j)) =>
            W32(cmds[i].wIndex, cmds[i].wValue) =
              Add32(image.secs[j].secStart,
                    W32(0, cmds[i].data - PayloadStart(image, j)))

\* the bytes of the call's write to the group at register reg, when made
GroupData(reg) ==
  {cmds[i].data : i \in {j \in 1..Len(cmds) : cmds[j].reg = reg}}

\* P1, P2, P3 and, for the output group, R as the device decodes them from
\* the eight bytes of a group
DecodeGroup(d) ==
  [p1 |-> 65536 * (d[3] % 4) + 256 * d[4] + d[5],
   p2 |-> 65536 * (d[6] % 16) + 256 * d[7] + d[8],
   p3 |-> 65536 * (d[6] \div 16) + 256 * d[1] + d[2],
   r |-> d[3] \div 32]

\* C32: the two 8-byte groups written by clock_source_set_clock decode
\* back to the computed parameters: the feedback group to
\* P1 = 128a + floor(128b/c) - 512, P2 = 128b - c*floor(128b/c), P3 = c, the
\* output group to P1 = 128*OUT - 512, P2 = 0, P3 = 1 and R; no field is
\* truncated for any (a, b, c, OUT, R) the call can produce.
C32_RegistersDecode ==
  (ClockCall /\ cmds # <<>>) =>
    /\ \A d \in GroupData(MsnRegister(lastArg.index)) :
         DecodeGroup(d) =
           [p1 |-> 128 * clk.a + (128 * clk.b) \div clk.c - 512,
            p2 |-> 128 * clk.b - clk.c * ((128 * clk.b) \div clk.c),
            p3 |-> clk.c, r |-> 0]
    /\ \A d \in GroupData(MsRegister(lastArg.index)) :
         DecodeGroup(d) =
           [p1 |-> 128 * clk.output_ms - 512, p2 |-> 0, p3 |-> 1,
            r |-> clk.rdiv]


\* C34: a successful clock_source_set_clock(index, f) makes exactly four
\* I2C writes in this order: feedback group, output group, PLL reset
\* register (0x20 for index 0, 0x80 for index 1), clock control register
\* CLK_BASE + index with MS_INT|CLK_SRC_MS|CLK_DRV_8MA|MS_SRC_PLL{A,B}; a
\* failed write makes the call return an error and is its last write; a
\* rejected index or frequency causes no write.
C34_FourWrites ==
  lastOp = "clock_source_set_clock" =>
    /\ lastRet = "OK" =>
         /\ Len(cmds) = 4
         /\ \A i \in 1..4 : cmds[i].req = "I2CW" /\ cmds[i].ok
         /\ cmds[1].reg = (IF lastArg.index = 0 THEN 26 ELSE 34)
         /\ cmds[1].len = 8
         /\ cmds[2].reg = (IF lastArg.index = 0 THEN 42 ELSE 50)
         /\ cmds[2].len = 8
         /\ cmds[3].reg = 177
         /\ cmds[3].data = (IF lastArg.index = 0 THEN <<32>> ELSE <<128>>)
         /\ cmds[4].reg = 16 + lastArg.index
         /\ cmds[4].data = (IF lastArg.index = 0 THEN <<79>> ELSE <<111>>)
    /\ \A i \in 1..Len(cmds) :
         ~cmds[i].ok => lastRet = "ERR" /\ i = Len(cmds)
    /\ (lastArg.index \notin {0, 1} \/ clk.why # "ok") =>
         lastRet = "ERR" /\ cmds = <<>>

C34_Witness ==
  /\ lastOp = "clock_source_set_clock" /\ lastRet = "OK"
  /\ lastArg.index = 1 /\ lastArg.frequency = 64000000
  /\ Len(cmds) = 4 /\ cmds[4].data = <<111>>

\* the registers a write of len bytes at reg covers
Covered(c) == c.reg..(c.reg + c.len - 1)

\* C35: programming one clock output never changes the other:
\* clock_source_set_clock(0, f) writes only the MSNA group (26..33), the MS0
\* group (42..49), the PLL reset register with only the PLLA bit and the
\* CLK0 control register; clock_source_set_clock(1, f) only MSNB (34..41),
\* MS1 (50..57), the PLLB reset bit and CLK1 control.
C35_OtherOutputUntouched ==
  lastOp = "clock_source_set_clock" =>
    \A i \in 1..Len(cmds) :
      /\ Covered(cmds[i]) \subseteq
           (IF lastArg.index = 0 THEN (26..33) \cup (42..49) \cup {177, 16}
            ELSE (34..41) \cup (50..57) \cup {177, 17})
      /\ cmds[i].reg = 177 =>
           cmds[i].data = (IF lastArg.index = 0 THEN <<32>> ELSE <<128>>)

C35_Witness ==
  /\ lastOp = "clock_source_set_clock" /\ lastRet = "OK"
  /\ lastArg.index = 0 /\ Len(cmds) = 4
  /\ Covered(cmds[1]) = 26..33 /\ Covered(cmds[2]) = 42..49

(***************************************************************************)
(* R820T2 tuner (tuner.c).  Tuner frequencies are whole numbers of kHz.    *)
(* The state a tuner function works on is a record:                        *)
(*   registers, dirty   this->registers and the set of the bits of         *)
(*                this->registers_dirty_mask                               *)
(*   dev          the registers of the device as the host last wrote them  *)
(*                with success or read them                                *)
(*   unflushed    the registers updated in this->registers and neither     *)
(*                written to the device with success nor read back since   *)
(*   log, failAt  the I2C commands issued by the operation so far; the     *)
(*                command at position failAt fails                         *)
(*   locked, cal  what the device reports: the PLL lock bit, and the       *)
(*                filter calibration codes of the coming reads             *)
(*   relocked     the PLL lock bit the device reports while its VCO        *)
(*                current code is 3                                        *)
(*   vco, warned  the VCO indicator values read by the PLL programming of  *)
(*                the operation, and whether it printed its warning        *)
(*   ret, value   the return value and the value read                      *)
(***************************************************************************)
MaxTunerFail == 9   \* I2C commands of one tuner operation that may fail
MaxTunerOps == 2    \* operations on a tuner between tuner_open and tuner_close

R820T2_REGISTERS == 32
R820T2_REGISTERS_READ_MASK == 0..31
R820T2_REGISTERS_WRITE_MASK == 4..31
DEFAULT_TUNER_IF_FREQUENCY == 7000
CALIBRATION_LO_FREQUENCY == 88000

\* { reg, mask, shift } of every field of the R820T2 register matrix
R820T2_VCO_INDICATOR == <<2, 127, 0>>
R820T2_RF_INDICATOR == <<3, 255, 0>>
R820T2_FIL_CAL_CODE == <<4, 15, 0>>
R820T2_PWD_LT == <<5, 128, 7>>
R820T2_PWD_LNA1 == <<5, 32, 5>>
R820T2_LNA_GAIN_MODE == <<5, 16, 4>>
R820T2_LNA_GAIN == <<5, 15, 0>>
R820T2_PWD_PDET1 == <<6, 128, 7>>
R820T2_PWD_PDET3 == <<6, 64, 6>>
R820T2_FILT_3DB == <<6, 32, 5>>
R820T2_PW_LNA == <<6, 7, 0>>
R820T2_PWD_MIX == <<7, 64, 6>>
R820T2_PW0_MIX == <<7, 32, 5>>
R820T2_MIXGAIN_MODE == <<7, 16, 4>>
R820T2_MIX_GAIN == <<7, 15, 0>>
R820T2_PWD_AMP == <<8, 128, 7>>
R820T2_PW0_AMP == <<8, 64, 6>>
R820T2_IMR_G == <<8, 63, 0>>
R820T2_PWD_IFFILT == <<9, 128, 7>>
R820T2_PW1_IFFILT == <<9, 64, 6>>
R820T2_IMR_P == <<9, 63, 0>>
R820T2_PWD_FILT == <<10, 128, 7>>
R820T2_PW_FILT == <<10, 96, 5>>
R820T2_FILT_CODE == <<10, 15, 0>>
R820T2_FILT_BW == <<11, 224, 5>>
R820T2_FILT_CAP == <<11, 96, 5>>
R820T2_CAL_TRIGGER == <<11, 16, 4>>
R820T2_HPF == <<11, 15, 0>>
R820T2_PWD_VGA == <<12, 64, 6>>
R820T2_VGA_MODE == <<12, 16, 4>>
R820T2_VGA_CODE == <<12, 15, 0>>
R820T2_LNA_VTHH == <<13, 240, 4>>
R820T2_LNA_VTHL == <<13, 15, 0>>
R820T2_MIX_VTH_H == <<14, 240, 4>>
R820T2_MIX_VTH_L == <<14, 15, 0>>
R820T2_CLK_OUT_ENB == <<15, 16, 4>>
R820T2_CALI_CLK == <<15, 4, 2>>
R820T2_CLK_AGC_ENB == <<15, 2, 1>>
R820T2_SEL_DIV == <<16, 224, 5>>
R820T2_REFDIV == <<16, 16, 4>>
R820T2_XTAL_DRIVE == <<16, 8, 3>>
R820T2_CAPX == <<16, 3, 0>>
R820T2_PW_LDO_A == <<17, 192, 6>>
R820T2_VCO_CURRENT == <<18, 224, 5>>
R820T2_PW_SDM == <<18, 8, 3>>
R820T2_SI2C == <<20, 192, 6>>
R820T2_NI2C == <<20, 63, 0>>
R820T2_SDM_INL == <<21, 255, 0>>
R820T2_SDM_INH == <<22, 255, 0>>
R820T2_PW_LDO_D == <<23, 192, 6>>
R820T2_OPEN_D == <<23, 8, 3>>
R820T2_PWD_RFFILT == <<25, 128, 7>>
R820T2_SW_AGC == <<25, 16, 4>>
R820T2_RFMUX == <<26, 192, 6>>
R820T2_PLL_AUTO_CLK == <<26, 12, 2>>
R820T2_RFFILT == <<26, 3, 0>>
R820T2_TF_NCH == <<27, 240, 4>>
R820T2_TF_LP == <<27, 15, 0>>
R820T2_PDET3_GAIN == <<28, 240, 4>>
R820T2_PDET1_GAIN == <<29, 56, 3>>
R820T2_PDET2_GAIN == <<29, 7, 0>>
R820T2_PDET_CLK == <<30, 63, 0>>
R820T2_FILT_EXT == <<30, 64, 6>>

Fields ==
  {R820T2_VCO_INDICATOR, R820T2_RF_INDICATOR, R820T2_FIL_CAL_CODE,
   R820T2_PWD_LT, R820T2_PWD_LNA1, R820T2_LNA_GAIN_MODE, R820T2_LNA_GAIN,
   R820T2_PWD_PDET1, R820T2_PWD_PDET3, R820T2_FILT_3DB, R820T2_PW_LNA,
   R820T2_PWD_MIX, R820T2_PW0_MIX, R820T2_MIXGAIN_MODE, R820T2_MIX_GAIN,
   R820T2_PWD_AMP, R820T2_PW0_AMP, R820T2_IMR_G, R820T2_PWD_IFFILT,
   R820T2_PW1_IFFILT, R820T2_IMR_P, R820T2_PWD_FILT, R820T2_PW_FILT,
   R820T2_FILT_CODE, R820T2_FILT_BW, R820T2_FILT_CAP, R820T2_CAL_TRIGGER,
   R820T2_HPF, R820T2_PWD_VGA, R820T2_VGA_MODE, R820T2_VGA_CODE,
   R820T2_LNA_VTHH, R820T2_LNA_VTHL, R820T2_MIX_VTH_H, R820T2_MIX_VTH_L,
   R820T2_CLK_OUT_ENB, R820T2_CALI_CLK, R820T2_CLK_AGC_ENB,
   R820T2_SEL_DIV, R820T2_REFDIV, R820T2_XTAL_DRIVE, R820T2_CAPX,
   R820T2_PW_LDO_A, R820T2_VCO_CURRENT, R820T2_PW_SDM, R820T2_SI2C,
   R820T2_NI2C, R820T2_SDM_INL, R820T2_SDM_INH, R820T2_PW_LDO_D,
   R820T2_OPEN_D, R820T2_PWD_RFFILT, R820T2_SW_AGC, R820T2_RFMUX,
   R820T2_PLL_AUTO_CLK, R820T2_RFFILT, R820T2_TF_NCH, R820T2_TF_LP,
   R820T2_PDET3_GAIN, R820T2_PDET1_GAIN, R820T2_PDET2_GAIN,
   R820T2_PDET_CLK, R820T2_FILT_EXT}

\* init_registers of the build (TUNER_PARAMS_BBRF103), registers 0 to 31
init_registers ==
  <<0, 0, 0, 0, 0, 144, 128, 96, 128, 64, 160, 111, 64, 99, 117, 248,
    124, 131, 128, 0, 15, 0, 192, 48, 72, 204, 98, 0, 84, 174, 10, 192>>

\* { bandwidth (Hz), reg0x0a, reg0x0b }
tuner_if_bandwidth_table ==
  <<<<300000, 15, 232>>,
    <<450000, 15, 233>>,
    <<600000, 15, 234>>,
    <<900000, 15, 235>>,
    <<1100000, 15, 236>>,
    <<1200000, 15, 237>>,
    <<1300000, 15, 238>>,
    <<1500000, 14, 239>>,
    <<1800000, 15, 175>>,
    <<2200000, 15, 143>>,
    <<3000000, 4, 143>>,
    <<5000000, 11, 107>>,
    <<6000000, 16, 107>>,
    <<7000000, 16, 42>>,
    <<8000000, 16, 11>>>>

\* { register, value } pairs of tuner_standby
standby_registers ==
  <<<<6, 177>>, <<5, 160>>, <<7, 58>>, <<8, 64>>, <<9, 192>>, <<10, 54>>, <<12, 53>>, <<15, 104>>, <<17, 3>>, <<23, 244>>, <<25, 12>>>>

\* { lower_frequency (kHz), open_d, rf_mux_ploy, tf_c }
mux_params_table ==
  <<<<0, 8, 2, 223>>,
    <<50000, 8, 2, 190>>,
    <<55000, 8, 2, 139>>,
    <<60000, 8, 2, 123>>,
    <<65000, 8, 2, 105>>,
    <<70000, 8, 2, 88>>,
    <<75000, 0, 2, 68>>,
    <<80000, 0, 2, 68>>,
    <<90000, 0, 2, 52>>,
    <<100000, 0, 2, 52>>,
    <<110000, 0, 2, 36>>,
    <<120000, 0, 2, 36>>,
    <<140000, 0, 2, 20>>,
    <<180000, 0, 2, 19>>,
    <<220000, 0, 2, 19>>,
    <<250000, 0, 2, 17>>,
    <<280000, 0, 2, 0>>,
    <<310000, 0, 65, 0>>,
    <<450000, 0, 65, 0>>,
    <<588000, 0, 64, 0>>,
    <<650000, 0, 64, 0>>>>

RegIdx == 0..(R820T2_REGISTERS - 1)

\* (byte & where[1]) >> where[2]
GetField(byte, where) == BitAnd(byte, where[2]) \div Pow2(where[3])

\* a field update that clears the whole register first
SetFieldWhole(byte, where, value) == (value * Pow2(where[3])) % 256

\* byte &= ~where[1]; byte |= value << where[2], in a uint8_t
SetField(byte, where, value) ==
  BitOr(BitAnd(byte, BitNot8(where[2])), (value * Pow2(where[3])) % 256)

\* the two assertions of tuner_write_value
Fits(where, value) ==
  /\ BitAnd(value * Pow2(where[3]), 65535 - where[2]) = 0
  /\ where[2] >= Pow2(where[3])

lut == <<0, 8, 4, 12, 2, 10, 6, 14, 1, 9, 5, 13, 3, 11, 7, 15>>

\* (lut[byte & 0xf] << 4) | lut[byte >> 4]
r82xx_bitrev(byte) == lut[(byte % 16) + 1] * 16 + lut[(byte \div 16) + 1]

\* the device sends a register with its lowest bit first: bit i of the
\* register arrives as bit 7 - i of the byte
RECURSIVE WireByte(_, _)
WireByte(byte, n) ==
  IF n = 0 THEN 0
  ELSE (byte % 2) * Pow2(n - 1) + WireByte(byte \div 2, n - 1)

\* x evaluated once and handed to F
Bind(x, F(_)) == CHOOSE r \in {F(t) : t \in {x}} : TRUE

\* x evaluated once and handed to F unless it holds a failure
Then(x, F(_)) ==
  CHOOSE r \in {IF t.ret < 0 THEN t ELSE F(t) : t \in {x}} : TRUE

\* one I2C command of the operation: it fails at position failAt
I2cOk(s) == Len(s.log) + 1 # s.failAt

\* tuner_set_value
tuner_set_value(s, where, value) ==
  [s EXCEPT !.registers[where[1]] = SetField(@, where, value),
            !.dirty = @ \cup {where[1]},
            !.unflushed = @ \cup {where[1]}]

\* tuner_get_value
tuner_get_value(s, where) == GetField(s.registers[where[1]], where)

\* tuner_write_value: the shadow update, then one I2C write of the register
tuner_write_value(s, where, value) ==
  LET reg == where[1]
      byte == SetField(s.registers[reg], where, value)
      ok == I2cOk(s)
  IN  IF ok
      THEN [s EXCEPT !.registers[reg] = byte,
                     !.dev[reg] = byte,
                     !.dirty = @ \ {reg},
                     !.unflushed = @ \ {reg},
                     !.log = Append(@, Cmd("I2CW", reg, 1, TRUE)),
                     !.ret = 0]
      ELSE [s EXCEPT !.registers[reg] = byte,
                     !.dirty = @ \cup {reg},
                     !.unflushed = @ \cup {reg},
                     !.log = Append(@, Cmd("I2CW", reg, 1, FALSE)),
                     !.ret = -1]

\* the registers as the device holds them at a read of registers 0 to reg:
\* the status registers carry what the device reports
DeviceNow(s, reg) ==
  [i \in RegIdx |->
     IF i = 2
     THEN (IF (IF GetField(s.dev[18], R820T2_VCO_CURRENT) = 3
               THEN s.relocked ELSE s.locked)
           THEN 64 ELSE 0)
     ELSE IF i = 4 /\ reg >= 4 /\ s.cal # <<>> THEN Head(s.cal)
     ELSE s.dev[i]]

\* the bytes of registers from..to read from the device into the shadow
ReadInto(s, from, to) ==
  LET now == DeviceNow(s, to)
  IN  [s EXCEPT !.registers = [i \in RegIdx |->
                   IF i >= from /\ i <= to
                   THEN r82xx_bitrev(WireByte(now[i], 8))
                   ELSE s.registers[i]],
                !.dev = [i \in RegIdx |->
                   IF i >= from /\ i <= to THEN now[i] ELSE s.dev[i]],
                !.cal = IF to >= 4 /\ s.cal # <<>> THEN Tail(s.cal) ELSE s.cal,
                !.unflushed = @ \ (from..to),
                !.log = Append(@, Cmd("I2CR", from, to - from + 1, TRUE)),
                !.ret = 0]

\* tuner_read_value: registers 0 to reg are read, then the field is taken
tuner_read_value(s, where) ==
  LET reg == where[1]
  IN  IF ~I2cOk(s)
      THEN [s EXCEPT !.log = Append(@, Cmd("I2CR", 0, reg + 1, FALSE)),
                     !.ret = -1]
      ELSE Bind(ReadInto(s, 0, reg),
                LAMBDA t : [t EXCEPT !.dirty = @ \ (0..reg),
                                     !.value = GetField(t.registers[reg],
                                                        where)])

\* the for loop of tuner_read_registers and tuner_write_registers: the runs
\* of consecutive registers of mask, from register i on, as <<from, to>>
RECURSIVE Runs(_, _, _)
Runs(mask, i, from) ==
  IF i = R820T2_REGISTERS
  THEN (IF from >= 0 THEN << <<from, i - 1>> >> ELSE <<>>)
  ELSE IF i \notin mask
  THEN (IF from >= 0 THEN << <<from, i - 1>> >> ELSE <<>>)
       \o Runs(mask, i + 1, -1)
  ELSE Runs(mask, i + 1, IF from < 0 THEN i ELSE from)

\* the I2C reads of tuner_read_registers, run by run
RECURSIVE ReadRuns(_, _, _)
ReadRuns(s, runs, k) ==
  IF k > Len(runs) THEN s
  ELSE IF ~I2cOk(s)
  THEN [s EXCEPT !.log = Append(@, Cmd("I2CR", runs[k][1],
                                       runs[k][2] - runs[k][1] + 1, FALSE)),
                 !.ret = -1]
  ELSE Bind(ReadInto(s, runs[k][1], runs[k][2]),
            LAMBDA t : ReadRuns(t, runs, k + 1))

tuner_read_registers(s, register_mask) ==
  LET mask == register_mask \cap R820T2_REGISTERS_READ_MASK
  IN  Then(ReadRuns(s, Runs(mask, 0, -1), 1),
           LAMBDA t : [t EXCEPT !.dirty = @ \ mask])

\* one run of registers written to the device
WriteRun(s, from, to) ==
  IF ~I2cOk(s)
  THEN [s EXCEPT !.log = Append(@, Cmd("I2CW", from, to - from + 1, FALSE)),
                 !.ret = -1]
  ELSE [s EXCEPT !.dev = [i \in RegIdx |->
                   IF i >= from /\ i <= to THEN s.registers[i] ELSE s.dev[i]],
                 !.unflushed = @ \ (from..to),
                 !.log = Append(@, Cmd("I2CW", from, to - from + 1, TRUE)),
                 !.ret = 0]

\* the I2C writes of tuner_write_registers, run by run
RECURSIVE WriteRuns(_, _, _)
WriteRuns(s, runs, k) ==
  IF k > Len(runs) THEN s
  ELSE Then(WriteRun(s, runs[k][1], runs[k][2]),
            LAMBDA t : WriteRuns(t, runs, k + 1))

\* tuner_write_registers: the dirty bits are cleared after the last run
tuner_write_registers(s, register_mask) ==
  LET mask == register_mask \cap R820T2_REGISTERS_WRITE_MASK
  IN  Then(WriteRuns(s, Runs(mask, 0, -1), 1),
           LAMBDA t : [t EXCEPT !.dirty = @ \ mask])

\* the whole part of x / y for y > 0, when it is below 2^24
BigDivWide(x, y) ==
  LET y128 == BigMulSmall(y, 128)
      hi == BigDiv(x, y128)
      lo == BigDiv(BigSub(x, BigMulSmall(y128, hi)), y)
  IN  128 * hi + lo

(***************************************************************************)
(* tuner_compute_pll_parameters                                            *)
(***************************************************************************)
MIN_VCO_FREQUENCY == 1770000
MAX_SEL_DIV == 5
MIN_MULTIPLIER == 13
MAX_MULTIPLIER == MIN_MULTIPLIER + 128
SDM_FRAC_PRECISION == 65536
BOUNDARY_MARGIN == SDM_FRAC_PRECISION \div 128
LOWER_HALF_MARGIN == SDM_FRAC_PRECISION \div 2 - BOUNDARY_MARGIN \div 2
UPPER_HALF_MARGIN == SDM_FRAC_PRECISION \div 2 + BOUNDARY_MARGIN \div 2

\* pll_params->refdiv of the build (TUNER_PARAMS_BBRF103)
BuildRefdiv == 1

\* a loop that stops at MAX_SEL_DIV whatever the VCO frequency
RECURSIVE SelDivLoopStop(_, _)
SelDivLoopStop(sel_div, vco_frequency) ==
  IF sel_div < MAX_SEL_DIV /\ vco_frequency < MIN_VCO_FREQUENCY
  THEN SelDivLoopStop(sel_div + 1, 2 * vco_frequency)
  ELSE [sel_div |-> sel_div, vco_frequency |-> vco_frequency]

\* while (sel_div <= MAX_SEL_DIV && vco_frequency < MIN_VCO_FREQUENCY)
\*   { sel_div++; vco_frequency *= 2.0; }
RECURSIVE SelDivLoop(_, _)
SelDivLoop(sel_div, vco_frequency) ==
  IF sel_div <= MAX_SEL_DIV /\ vco_frequency < MIN_VCO_FREQUENCY
  THEN SelDivLoop(sel_div + 1, 2 * vco_frequency)
  ELSE [sel_div |-> sel_div, vco_frequency |-> vco_frequency]

\* a divisor with the two cases of refdiv exchanged
MultiplierDivisorSwapped(refdiv, xtal_frequency) ==
  IF refdiv = 0 THEN xtal_frequency ELSE 2 * xtal_frequency

\* multiplier = vco_frequency / divisor: 2 * xtal_frequency when refdiv is
\* 0, xtal_frequency when refdiv is 1
MultiplierDivisor(refdiv, xtal_frequency) ==
  IF refdiv = 0 THEN 2 * xtal_frequency ELSE xtal_frequency

\* (uint32_t) (multiplier * SDM_FRAC_PRECISION + 0.5)
MultScaled(vco_frequency, divisor) ==
  BigDivWide(BigAdd(BigMul(BigOf(vco_frequency),
                           BigOf(2 * SDM_FRAC_PRECISION)),
                    BigOf(divisor)),
             BigOf(2 * divisor))

\* no boundary spur prevention
BoundarySpurNone(mult_int, mult_frac) ==
  [mult_int |-> mult_int, mult_frac |-> mult_frac]

\* boundary spur prevention
BoundarySpur(mult_int, mult_frac) ==
  IF mult_frac < BOUNDARY_MARGIN
  THEN [mult_int |-> mult_int, mult_frac |-> 0]
  ELSE IF mult_frac > SDM_FRAC_PRECISION - BOUNDARY_MARGIN
  THEN [mult_int |-> mult_int + 1, mult_frac |-> 0]
  ELSE IF mult_frac < SDM_FRAC_PRECISION \div 2 /\ mult_frac > LOWER_HALF_MARGIN
  THEN [mult_int |-> mult_int, mult_frac |-> LOWER_HALF_MARGIN]
  ELSE IF mult_frac > SDM_FRAC_PRECISION \div 2 /\ mult_frac < UPPER_HALF_MARGIN
  THEN [mult_int |-> mult_int, mult_frac |-> UPPER_HALF_MARGIN]
  ELSE [mult_int |-> mult_int, mult_frac |-> mult_frac]

\* the parameters that are not computed: the function has returned -1
NoPll(why, sd) ==
  [ret |-> -1, why |-> why, refdiv |-> BuildRefdiv, sel_div |-> sd.sel_div,
   vco_frequency |-> sd.vco_frequency]

tuner_compute_pll_parameters(xtal_frequency, frequency) ==
  LET sd == SelDivLoop(0, 2 * frequency)
      divisor == MultiplierDivisor(BuildRefdiv, xtal_frequency)
      mult_scaled == MultScaled(sd.vco_frequency, divisor)
      raw_frac == mult_scaled % SDM_FRAC_PRECISION
      m == BoundarySpur(mult_scaled \div SDM_FRAC_PRECISION, raw_frac)
  IN  IF sd.sel_div > MAX_SEL_DIV THEN NoPll("sel_div", sd)
      ELSE IF sd.vco_frequency < MIN_MULTIPLIER * divisor
      THEN NoPll("too low", sd)
      ELSE IF sd.vco_frequency >= MAX_MULTIPLIER * divisor
      THEN NoPll("too high", sd)
      ELSE [ret |-> 0, why |-> "ok", refdiv |-> BuildRefdiv,
            sel_div |-> sd.sel_div, vco_frequency |-> sd.vco_frequency,
            raw_int |-> mult_scaled \div SDM_FRAC_PRECISION,
            raw_frac |-> raw_frac,
            mult_int |-> m.mult_int, mult_frac |-> m.mult_frac,
            ni2c |-> ((m.mult_int - 13) \div 4) % 256,
            si2c |-> (m.mult_int - 13) % 4,
            pw_sdm |-> IF m.mult_frac = 0 THEN 1 ELSE 0,
            sdm |-> m.mult_frac % 65536]

(***************************************************************************)
(* The tuner functions                                                     *)
(***************************************************************************)
\* consecutive calls of tuner_set_value, sets[k] = <<where, value>>
RECURSIVE SetValues(_, _, _)
SetValues(s, sets, k) ==
  IF k > Len(sets) THEN s
  ELSE Bind(tuner_set_value(s, sets[k][1], sets[k][2]),
            LAMBDA t : SetValues(t, sets, k + 1))

\* consecutive calls of tuner_write_value, each followed by
\* if (ret < 0) return -1
RECURSIVE WriteValues(_, _, _)
WriteValues(s, writes, k) ==
  IF k > Len(writes) THEN s
  ELSE Then(tuner_write_value(s, writes[k][1], writes[k][2]),
            LAMBDA t : WriteValues(t, writes, k + 1))

\* a test of bit 7 of the indicator
PllUnlockedBit7(vco_indicator) == BitAnd(vco_indicator, 128) = 0

\* !(vco_indicator & 0x40)
PllUnlocked(vco_indicator) == BitAnd(vco_indicator, 64) = 0

\* if (!(vco_indicator & 0x40)) fprintf(stderr, "WARNING - ..."), with the
\* vco_indicator of the function body: the first read
PllWarning(vco) == PllUnlocked(vco[1])

\* tuner_apply_pll_parameters: the second read of the VCO indicator goes to
\* a variable of the inner block, and an unlocked PLL is only a warning
tuner_apply_pll_parameters(s, p) ==
  Then(Then(Then(Then(
    WriteValues(s, << <<R820T2_PLL_AUTO_CLK, 0>>, <<R820T2_VCO_CURRENT, 4>> >>, 1),
    LAMBDA t : Bind(SetValues(t, << <<R820T2_REFDIV, p.refdiv>>,
                                    <<R820T2_SEL_DIV, p.sel_div>>,
                                    <<R820T2_PW_SDM, p.pw_sdm>>,
                                    <<R820T2_SI2C, p.si2c>>,
                                    <<R820T2_NI2C, p.ni2c>>,
                                    <<R820T2_SDM_INL, p.sdm % 256>>,
                                    <<R820T2_SDM_INH,
                                      (p.sdm \div 256) % 256>> >>, 1),
                    LAMBDA u : tuner_write_registers(u, u.dirty))),
    LAMBDA t : Then(tuner_read_value(t, R820T2_VCO_INDICATOR),
                    LAMBDA u : [u EXCEPT !.vco = <<u.value>>])),
    LAMBDA t : IF PllUnlocked(t.vco[1])
               THEN Then(Then(tuner_write_value(t, R820T2_VCO_CURRENT, 3),
                         LAMBDA u : tuner_read_value(u, R820T2_VCO_INDICATOR)),
                         LAMBDA u : [u EXCEPT !.vco = Append(@, u.value)])
               ELSE t),
    LAMBDA t : tuner_write_value(
                 [t EXCEPT !.warned = PllWarning(t.vco)],
                 R820T2_PLL_AUTO_CLK, 2))

\* tuner_set_pll
tuner_set_pll(s, frequency) ==
  Bind(tuner_compute_pll_parameters(s.xtal_frequency, frequency),
       LAMBDA p : IF p.ret < 0 THEN [s EXCEPT !.pll = p, !.ret = -1]
                  ELSE tuner_apply_pll_parameters([s EXCEPT !.pll = p], p))

\* a search that stops at a row whose lower frequency is the frequency
RECURSIVE MuxIndexLe(_, _)
MuxIndexLe(frequency, idx) ==
  IF idx < Len(mux_params_table) - 1 /\
     ~(frequency <= mux_params_table[idx + 2][1])
  THEN MuxIndexLe(frequency, idx + 1)
  ELSE idx

\* for (idx = 0; idx < size - 1; ++idx)
\*   if (frequency < mux_params_table[idx+1].lower_frequency) break;
RECURSIVE MuxIndex(_, _)
MuxIndex(frequency, idx) ==
  IF idx < Len(mux_params_table) - 1 /\
     ~(frequency < mux_params_table[idx + 2][1])
  THEN MuxIndex(frequency, idx + 1)
  ELSE idx

tuner_compute_mux_parameters(frequency) ==
  LET row == mux_params_table[MuxIndex(frequency, 0) + 1]
  IN  [open_d |-> row[2] \div 8,
       rfmux |-> BitAnd(row[3], 192) \div 64,
       rffilt |-> BitAnd(row[3], 3),
       tf_nch |-> BitAnd(row[4], 240) \div 16,
       tf_lp |-> BitAnd(row[4], 15)]

tuner_apply_mux_parameters(s, m) ==
  Bind(SetValues(s, << <<R820T2_OPEN_D, m.open_d>>,
                       <<R820T2_RFMUX, m.rfmux>>,
                       <<R820T2_RFFILT, m.rffilt>>,
                       <<R820T2_TF_NCH, m.tf_nch>>,
                       <<R820T2_TF_LP, m.tf_lp>>,
                       <<R820T2_XTAL_DRIVE, 0>>,
                       <<R820T2_CAPX, 0>>,
                       <<R820T2_PWD_AMP, 1>>,
                       <<R820T2_PW0_AMP, 0>>,
                       <<R820T2_IMR_G, 0>>,
                       <<R820T2_PWD_IFFILT, 0>>,
                       <<R820T2_PW1_IFFILT, 0>>,
                       <<R820T2_IMR_P, 0>> >>, 1),
       LAMBDA t : tuner_write_registers(t, t.dirty))

tuner_set_mux(s, frequency) ==
  tuner_apply_mux_parameters(s, tuner_compute_mux_parameters(frequency))

\* a tuning that programs the PLL to the RF frequency, without the IF
tuner_set_frequency_rf(s, frequency) ==
  Then(tuner_set_mux(s, frequency),
       LAMBDA t : tuner_set_pll(t, frequency))

\* tuner_set_frequency
tuner_set_frequency(s, frequency) ==
  Then(tuner_set_mux(s, frequency),
       LAMBDA t : tuner_set_pll(t, frequency + t.if_frequency))

\* a tuning that looks at the harmonic after the RF mux has been set
tuner_set_harmonic_frequency_late(s, frequency, harmonic) ==
  Then(tuner_set_mux(s, frequency),
       LAMBDA t : IF harmonic < 0 \/ harmonic % 2 = 0
                  THEN [t EXCEPT !.ret = -1]
                  ELSE tuner_set_pll(t, (frequency + t.if_frequency)
                                        \div harmonic))

\* tuner_set_harmonic_frequency; the model calls it with frequencies for
\* which (frequency + if_frequency) / harmonic is a whole number of kHz
tuner_set_harmonic_frequency(s, frequency, harmonic) ==
  IF harmonic < 0 \/ harmonic % 2 = 0 THEN [s EXCEPT !.ret = -1]
  ELSE Then(tuner_set_mux(s, frequency),
            LAMBDA t : tuner_set_pll(t, (frequency + t.if_frequency)
                                        \div harmonic))

\* the gains in dB of the LNA, the mixer and the VGA, by register code
tuner_lna_gains_table == [i \in 1..16 |-> 2 * (i - 1)]
tuner_mixer_gains_table == [i \in 1..16 |-> i - 1]
tuner_vga_gains_table == [i \in 1..16 |-> i - 1]

\* for (idx = 0; idx < size; ++idx) if (gain == table[idx]) break;
RECURSIVE GainIndex(_, _, _)
GainIndex(table, gain, idx) ==
  IF idx < Len(table) /\ gain # table[idx + 1]
  THEN GainIndex(table, gain, idx + 1)
  ELSE idx

\* tuner_set_lna_gain, tuner_set_mixer_gain, tuner_set_vga_gain: the code
\* of the gain in the table of the stage, written to the field of the stage
SetGain(s, table, where, gain) ==
  LET idx == GainIndex(table, gain, 0)
  IN  IF idx = Len(table) THEN [s EXCEPT !.ret = -1]
      ELSE tuner_write_value(s, where, idx)

tuner_set_lna_gain(s, gain) ==
  SetGain(s, tuner_lna_gains_table, R820T2_LNA_GAIN, gain)

tuner_set_mixer_gain(s, gain) ==
  SetGain(s, tuner_mixer_gains_table, R820T2_MIX_GAIN, gain)

tuner_set_vga_gain(s, gain) ==
  SetGain(s, tuner_vga_gains_table, R820T2_VGA_CODE, gain)

\* tuner_set_lna_agc: the gain mode bit is 0 with the AGC on
tuner_set_lna_agc(s, agc) ==
  tuner_write_value(s, R820T2_LNA_GAIN_MODE, IF agc # 0 THEN 0 ELSE 1)

\* tuner_set_mixer_agc: the gain mode bit is 1 with the AGC on
tuner_set_mixer_agc(s, agc) ==
  tuner_write_value(s, R820T2_MIXGAIN_MODE, IF agc # 0 THEN 1 ELSE 0)

\* a search that takes the first row whose bandwidth is not below the one
\* asked for
RECURSIVE BandwidthIndexUpTo(_, _)
BandwidthIndexUpTo(bandwidth, idx) ==
  IF idx < Len(tuner_if_bandwidth_table) /\
     bandwidth > tuner_if_bandwidth_table[idx + 1][1]
  THEN BandwidthIndexUpTo(bandwidth, idx + 1)
  ELSE idx

\* the row of tuner_if_bandwidth_table for a bandwidth, or one past the
\* table
RECURSIVE BandwidthIndex(_, _)
BandwidthIndex(bandwidth, idx) ==
  IF idx < Len(tuner_if_bandwidth_table) /\
     bandwidth # tuner_if_bandwidth_table[idx + 1][1]
  THEN BandwidthIndex(bandwidth, idx + 1)
  ELSE idx

\* tuner_set_if_bandwidth
tuner_set_if_bandwidth(s, bandwidth) ==
  LET idx == BandwidthIndex(bandwidth, 0)
      row == tuner_if_bandwidth_table[idx + 1]
  IN  IF idx = Len(tuner_if_bandwidth_table) THEN [s EXCEPT !.ret = -1]
      ELSE Bind(SetValues(s, << <<R820T2_FILT_CODE, BitAnd(row[2], 15)>>,
                                <<R820T2_FILT_BW, BitAnd(row[3], 224) \div 32>>,
                                <<R820T2_HPF, BitAnd(row[3], 15)>> >>, 1),
                LAMBDA t : tuner_write_registers(t, t.dirty))

\* tuner_standby: the registers are assigned whole
RECURSIVE StandbyAssign(_, _)
StandbyAssign(s, i) ==
  IF i > Len(standby_registers) THEN s
  ELSE Bind([s EXCEPT !.registers[standby_registers[i][1]] =
                        standby_registers[i][2],
                      !.dirty = @ \cup {standby_registers[i][1]},
                      !.unflushed = @ \cup {standby_registers[i][1]}],
            LAMBDA t : StandbyAssign(t, i + 1))

tuner_standby(s) ==
  Bind(StandbyAssign(s, 1), LAMBDA t : tuner_write_registers(t, t.dirty))

\* tuner_init_registers: memcpy, then all the writable registers are written
tuner_init_registers(s) ==
  tuner_write_registers(
    [s EXCEPT !.registers = [i \in RegIdx |-> init_registers[i + 1]]],
    R820T2_REGISTERS_WRITE_MASK)

n_calibration_attempts == 5

\* a calibration that takes any non-zero code
CalCodeOkNonZero(cal_code) == cal_code # 0

\* if (cal_code && cal_code != 0x0f) return 0
CalCodeOk(cal_code) == cal_code # 0 /\ cal_code # 15

\* tuner_calibrate: the for loop from attempt i on
RECURSIVE tuner_calibrate(_, _)
tuner_calibrate(s, i) ==
  IF ~(i < n_calibration_attempts) THEN [s EXCEPT !.ret = -1]
  ELSE Then(Then(Then(Then(
         WriteValues(s, << <<R820T2_FILT_CAP, 0>>, <<R820T2_CALI_CLK, 1>>,
                           <<R820T2_CAPX, 1>> >>, 1),
         LAMBDA t : tuner_set_pll(t, CALIBRATION_LO_FREQUENCY)),
         LAMBDA t : WriteValues(t, << <<R820T2_CAL_TRIGGER, 1>>,
                                      <<R820T2_CAL_TRIGGER, 0>>,
                                      <<R820T2_CALI_CLK, 0>> >>, 1)),
         LAMBDA t : tuner_read_value(t, R820T2_FIL_CAL_CODE)),
         LAMBDA t : IF CalCodeOk(t.value)
                    THEN [t EXCEPT !.attempts = i + 1]
                    ELSE tuner_calibrate([t EXCEPT !.attempts = i + 1], i + 1))

\* the tuner allocated by tuner_open, before tuner_init_registers, in front
\* of a device whose registers are as dev
NewTuner(dev, failAt, locked, cal) ==
  [registers |-> [i \in RegIdx |-> 0], dirty |-> {}, unflushed |-> {},
   dev |-> dev, xtal_frequency |-> DEFAULT_TUNER_XTAL_FREQUENCY \div 1000,
   if_frequency |-> DEFAULT_TUNER_IF_FREQUENCY,
   log |-> <<>>, failAt |-> failAt, locked |-> locked, cal |-> cal,
   relocked |-> locked, vco |-> <<>>, warned |-> FALSE,
   ret |-> 0, value |-> 0, attempts |-> 0,
   pll |-> [ret |-> 0, why |-> "none"]]

\* tuner_open: the tuner, with ret = -1 when it has been freed again
tuner_open(dev, failAt, locked, cal) ==
  Then(Then(tuner_init_registers(NewTuner(dev, failAt, locked, cal)),
            LAMBDA t : tuner_calibrate(t, 0)),
       LAMBDA t : tuner_read_registers(t, RegIdx))

(***************************************************************************)
(* The tuner, register by register                                         *)
(***************************************************************************)

\* bounds of the tuner runs: the I2C transfer of a call that fails, counted
\* from 1 (0: none), and the calls made on an open tuner
TunerFailPoints == 0..MaxTunerFail

\* the answers of the device to the attempts of one tuner_calibrate: k
\* times the same bad code and then a good one, five bad codes, and a mix
\* of the two bad codes
CalAnswers ==
  {[i \in 1..(k + 1) |-> IF i <= k THEN bad ELSE 5] :
     k \in 0..(n_calibration_attempts - 1), bad \in {0, 15}}
  \cup {[i \in 1..n_calibration_attempts |-> bad] : bad \in {0, 15}}
  \cup {<<0, 15, 0, 15, 0>>}

\* tuner_open is followed with every sequence of answers when no transfer
\* fails, and with each failing transfer when the first answer is good
OpenInputs ==
  {[failAt |-> 0, locked |-> l, cal |-> c] : l \in BOOLEAN, c \in CalAnswers}
  \cup {[failAt |-> f, locked |-> l, cal |-> <<5>>] :
          f \in TunerFailPoints \ {0}, l \in BOOLEAN}

\* frequencies of tuner_set_frequency in kHz; the LO is 7000 kHz above
TunerFrequencies ==
  {20656, 20657, 99999, 100000, 100001, 100250, 100499, 100500, 100501,
   150000, 250000, 500000, 1000000, 2248999, 2249000}

\* tuner_set_frequency is followed with every frequency when no transfer
\* fails, and with each failing transfer at 100 MHz
FrequencyInputs ==
  {[frequency |-> f, failAt |-> 0] : f \in TunerFrequencies}
  \cup {[frequency |-> 100000, failAt |-> f] : f \in TunerFailPoints \ {0}}

\* bandwidths of tuner_set_if_bandwidth in Hz
TunerBandwidths ==
  {tuner_if_bandwidth_table[i][1] : i \in 1..Len(tuner_if_bandwidth_table)}
  \cup {0, 2200001, 9000000}

\* the same for tuner_set_if_bandwidth, the failing transfers at 2.2 MHz
BandwidthInputs ==
  {[bandwidth |-> b, failAt |-> 0] : b \in TunerBandwidths}
  \cup {[bandwidth |-> 2200000, failAt |-> f] : f \in TunerFailPoints \ {0}}

\* what stays of a struct tuner between two calls
Settled(t) == [t EXCEPT !.failAt = 0, !.cal = <<>>, !.log = <<>>,
                        !.ret = 0, !.value = 0, !.attempts = 0,
                        !.relocked = t.locked, !.vco = <<>>,
                        !.warned = FALSE]

\* what a call starts from: the tuner as it is, the transfers of this call
Called(failAt, locked) ==
  [tun.t EXCEPT !.failAt = failAt, !.locked = locked, !.relocked = locked]

\* the answers of the lock bit: locked; never locked; locked once the VCO
\* current code is 3
LockAnswers == {<<TRUE, TRUE>>, <<FALSE, FALSE>>, <<FALSE, TRUE>>}

TunerReturns(op, arg, t) ==
  /\ lastOp' = op
  /\ lastArg' = arg
  /\ lastRet' = IF t.ret = 0 THEN "OK" ELSE "ERR"
  /\ cmds' = t.log
  /\ prevStopOk' = FALSE
  /\ gpioBefore' = gpio
  /\ UNCHANGED <<handleVars, tunerVars, gpio, ringVars, callerVars, ubVars,
                 histVars, clk>>

\* tuner_open; a tuner that could not be set up is freed again
TunerOpen ==
  /\ ~tun.open
  /\ tun.n < MaxTunerOps
  /\ \E in \in OpenInputs :
       \E t \in {tuner_open(tun.dev, in.failAt, in.locked, in.cal)} :
         /\ tun' = IF t.ret = 0
                   THEN [open |-> TRUE, t |-> Settled(t),
                         before |-> Settled(t), n |-> tun.n]
                   ELSE [open |-> FALSE, dev |-> t.dev, n |-> tun.n + 1]
         /\ TunerReturns("tuner_open",
                         [cal |-> in.cal, failAt |-> in.failAt,
                          attempts |-> t.attempts], t)

\* tuner_close
TunerClose ==
  /\ tun.open
  /\ tun' = [open |-> FALSE, dev |-> tun.t.dev, n |-> tun.n + 1]
  /\ TunerReturns("tuner_close", [none |-> 0], [ret |-> 0, log |-> <<>>])

TunerCall(op, arg, t) ==
  /\ tun' = [open |-> TRUE, t |-> Settled(t), before |-> tun.t,
             n |-> tun.n + 1]
  /\ TunerReturns(op, arg, t)

\* tuner_set_frequency
TunerSetFrequency ==
  /\ tun.open
  /\ tun.n < MaxTunerOps
  /\ \E in \in FrequencyInputs, lock \in LockAnswers :
       \E t \in {tuner_set_frequency(
                   [Called(in.failAt, lock[1]) EXCEPT !.relocked = lock[2]],
                   in.frequency)} :
         TunerCall("tuner_set_frequency",
                   [frequency |-> in.frequency, failAt |-> in.failAt,
                    vco |-> t.vco, warned |-> t.warned], t)

\* tuner_set_if_bandwidth
TunerSetIfBandwidth ==
  /\ tun.open
  /\ tun.n < MaxTunerOps
  /\ \E in \in BandwidthInputs :
       \E t \in {tuner_set_if_bandwidth(Called(in.failAt, tun.t.locked),
                                        in.bandwidth)} :
         TunerCall("tuner_set_if_bandwidth",
                   [bandwidth |-> in.bandwidth, failAt |-> in.failAt], t)

\* tuner_standby
TunerStandby ==
  /\ tun.open
  /\ tun.n < MaxTunerOps
  /\ \E failAt \in TunerFailPoints :
       \E t \in {tuner_standby(Called(failAt, tun.t.locked))} :
         TunerCall("tuner_standby", [none |-> 0], t)

\* the gain and AGC setters and the arguments they are called with
GainSetters == {"tuner_set_lna_gain", "tuner_set_lna_agc",
                "tuner_set_mixer_gain", "tuner_set_mixer_agc",
                "tuner_set_vga_gain"}
GainValues == {-1, 0, 6}
GainInputs ==
  {[op |-> op, value |-> v, failAt |-> f] :
     op \in GainSetters, v \in GainValues, f \in {0, 1}}

GainSetter(op, s, value) ==
  CASE op = "tuner_set_lna_gain" -> tuner_set_lna_gain(s, value)
    [] op = "tuner_set_lna_agc" -> tuner_set_lna_agc(s, value)
    [] op = "tuner_set_mixer_gain" -> tuner_set_mixer_gain(s, value)
    [] op = "tuner_set_mixer_agc" -> tuner_set_mixer_agc(s, value)
    [] op = "tuner_set_vga_gain" -> tuner_set_vga_gain(s, value)

\* tuner_set_lna_gain, tuner_set_lna_agc, tuner_set_mixer_gain,
\* tuner_set_mixer_agc, tuner_set_vga_gain
TunerSetGain ==
  /\ tun.open
  /\ tun.n < MaxTunerOps
  /\ \E in \in GainInputs :
       \E t \in {GainSetter(in.op, Called(in.failAt, tun.t.locked),
                            in.value)} :
         TunerCall(in.op, [value |-> in.value, failAt |-> in.failAt], t)

\* tuner_set_harmonic_frequency is called with odd harmonics that divide
\* frequency + if_frequency, with harmonics it turns away, and with each
\* failing transfer for one tuning
HarmonicInputs ==
  {[frequency |-> in[1], harmonic |-> in[2], failAt |-> 0, locked |-> l] :
     in \in {<<100000, 1>>, <<293000, 3>>, <<493000, 5>>, <<293000, 0>>,
             <<293000, 2>>, <<293000, 4>>, <<293000, -1>>, <<293000, -2>>,
             <<293000, -3>>},
     l \in BOOLEAN}
  \cup {[frequency |-> 293000, harmonic |-> 3, failAt |-> f, locked |-> TRUE] :
          f \in TunerFailPoints \ {0}}

\* tuner_set_harmonic_frequency
TunerSetHarmonicFrequency ==
  /\ tun.open
  /\ tun.n < MaxTunerOps
  /\ \E in \in HarmonicInputs :
       \E t \in {tuner_set_harmonic_frequency(Called(in.failAt, in.locked),
                                              in.frequency, in.harmonic)} :
         TunerCall("tuner_set_harmonic_frequency",
                   [frequency |-> in.frequency, harmonic |-> in.harmonic,
                    failAt |-> in.failAt], t)

\* frequencies in kHz at, next to and between the lower frequencies of
\* mux_params_table, below all of them and above all of them
MuxFrequencies ==
  {mux_params_table[i][1] + d :
     i \in 1..Len(mux_params_table), d \in {-1, 0, 1, 2, 2499}}
  \cup {-50000, 3000000}

\* tuner_compute_mux_parameters for a frequency
ComputeMux ==
  /\ \E frequency \in MuxFrequencies :
       /\ lastOp' = "tuner_compute_mux_parameters"
       /\ lastArg' = [frequency |-> frequency,
                      idx |-> MuxIndex(frequency, 0),
                      mux_params |-> tuner_compute_mux_parameters(frequency)]
  /\ lastRet' = "OK"
  /\ cmds' = <<>>
  /\ prevStopOk' = FALSE
  /\ gpioBefore' = gpio
  /\ UNCHANGED <<handleVars, tunerVars, gpio, ringVars, callerVars, ubVars,
                 histVars, clk, tun>>

NextMux == ComputeMux

SpecMux == Init /\ [][NextMux]_vars

NextTuner ==
  \/ TunerOpen
  \/ TunerClose
  \/ TunerSetFrequency
  \/ TunerSetIfBandwidth
  \/ TunerStandby
  \/ TunerSetGain
  \/ TunerSetHarmonicFrequency

SpecTuner == Init /\ [][NextTuner]_vars

\* C21: in every reachable tuner state, bit i of the dirty mask is set if
\* and only if shadow register i has been written and not yet flushed to
\* the device (it may differ from what the device last acknowledged)
C21_DirtyMask ==
  tun.open =>
    \A i \in RegIdx : i \in tun.t.dirty <=> i \in tun.t.unflushed

\* the reads of FIL_CAL_CODE among the transfers of the last call: registers
\* 0 to 4 are read
CalReads ==
  Cardinality({i \in DOMAIN cmds : cmds[i].req = "I2CR" /\ cmds[i].len = 5})

\* the attempts of the last tuner_open that the device answered with a code
\* other than 0 and 0x0F
GoodAnswers ==
  {i \in DOMAIN lastArg.cal : lastArg.cal[i] # 0 /\ lastArg.cal[i] # 15}

\* C23: tuner_calibrate makes at most five attempts; without I2C errors it
\* stops at the first attempt whose FIL_CAL_CODE is neither 0 nor 0x0F and
\* returns success, and it fails exactly when five attempts in a row read 0
\* or 0x0F, and then tuner_open fails
C23_Calibration ==
  lastOp = "tuner_open" =>
    /\ lastArg.attempts <= 5
    /\ CalReads <= 5
    /\ lastArg.failAt = 0 =>
         /\ CalReads = lastArg.attempts
         /\ IF GoodAnswers # {}
            THEN /\ lastRet = "OK"
                 /\ tun.open
                 /\ lastArg.attempts \in GoodAnswers
                 /\ \A i \in GoodAnswers : lastArg.attempts <= i
            ELSE /\ lastRet = "ERR"
                 /\ ~tun.open
                 /\ lastArg.attempts = 5

C23_Witness ==
  /\ lastOp = "tuner_open"
  /\ lastArg.cal = <<15, 15, 15, 15, 15>>
  /\ lastArg.failAt = 0
  /\ lastArg.attempts = 5
  /\ CalReads = 5
  /\ lastRet = "ERR"
  /\ ~tun.open

\* the LO frequency in kHz of the last tuner_set_frequency
LoFrequency == lastArg.frequency + DEFAULT_TUNER_IF_FREQUENCY

\* f_lo * 2^(sel_div + 1) >= 1.77 GHz, in kHz
ReachesVco(f_lo, sel_div) == f_lo * Pow2(sel_div + 1) >= 1770000

\* the values of sel_div in 0..5 that bring the VCO to 1.77 GHz
SelDivs == {d \in 0..5 : ReachesVco(LoFrequency, d)}

\* C24: for every LO frequency the PLL computation selects sel_div as the
\* smallest value in 0..5 with f_lo * 2^(sel_div+1) >= 1.77 GHz and rejects
\* the frequency as too low exactly when no value in 0..5 satisfies this; an
\* accepted frequency never has sel_div above 5
C24_SelDiv ==
  (lastOp = "tuner_set_frequency" /\ lastArg.failAt = 0) =>
    /\ tun.t.pll.why = "sel_div" <=> SelDivs = {}
    /\ tun.t.pll.why = "sel_div" => tun.t.pll.ret = -1 /\ lastRet = "ERR"
    /\ tun.t.pll.why # "sel_div" =>
         /\ tun.t.pll.sel_div \in SelDivs
         /\ \A d \in SelDivs : tun.t.pll.sel_div <= d
    /\ tun.t.pll.ret = 0 => tun.t.pll.sel_div <= 5

C24_Witness ==
  /\ lastOp = "tuner_set_frequency"
  /\ lastArg.failAt = 0
  /\ LoFrequency = 27657
  /\ tun.t.pll.ret = 0
  /\ tun.t.pll.sel_div = 5
  /\ GetField(tun.t.dev[R820T2_SEL_DIV[1]], R820T2_SEL_DIV) = 5
  /\ lastRet = "OK"

\* the fields that tuner_apply_pll_parameters writes
PllFields ==
  {R820T2_PLL_AUTO_CLK, R820T2_VCO_CURRENT, R820T2_REFDIV, R820T2_SEL_DIV,
   R820T2_PW_SDM, R820T2_SI2C, R820T2_NI2C, R820T2_SDM_INL, R820T2_SDM_INH}

\* the field as the device holds it
DevField(t, where) == GetField(t.dev[where[1]], where)

\* the VCO frequency in kHz of the last tuner_set_frequency
VcoFrequency == LoFrequency * Pow2(tun.t.pll.sel_div + 1)

\* the multiplier of the last call, before the boundary spur prevention, is
\* f_vco / (factor * f_xtal) rounded to a multiple of 1/65536
MultiplierIs(factor) ==
  LET d == factor * tun.t.xtal_frequency
      ms == tun.t.pll.raw_int * 65536 + tun.t.pll.raw_frac
      mid == BigAdd(BigMul(BigOf(VcoFrequency), BigOf(131072)), BigOf(d))
  IN  /\ BigLeq(BigMul(BigOf(2 * d), BigOf(ms)), mid)
      /\ BigLess(mid, BigMul(BigOf(2 * d), BigOf(ms + 1)))

\* M < 13 or M >= 141 for M = f_vco / (factor * f_xtal)
MultiplierOutOfRange(factor) ==
  \/ VcoFrequency < 13 * factor * tun.t.xtal_frequency
  \/ VcoFrequency >= 141 * factor * tun.t.xtal_frequency

\* the call has made the transfers of tuner_set_mux and no other, and the
\* PLL fields of the shadow are as they were
NoPllWrite ==
  /\ cmds = tuner_set_mux(tun.before, lastArg.frequency).log
  /\ \A where \in PllFields :
       tuner_get_value(tun.t, where) = tuner_get_value(tun.before, where)

\* a tuner_set_frequency without a failing transfer whose sel_div is in
\* 0..5, and the multiplier rule with refdiv_factor as a function of REFDIV
MultiplierRule(factor0, factor1) ==
  (/\ lastOp = "tuner_set_frequency"
   /\ lastArg.failAt = 0
   /\ tun.t.pll.why # "sel_div") =>
    LET factor == IF DevField(tun.t, R820T2_REFDIV) = 0 THEN factor0
                  ELSE factor1
    IN  IF MultiplierOutOfRange(factor)
        THEN lastRet = "ERR" /\ tun.t.pll.ret = -1 /\ NoPllWrite
        ELSE lastRet = "OK" /\ tun.t.pll.ret = 0 /\ MultiplierIs(factor)

\* C25 as stated: M = f_vco / (refdiv_factor * f_xtal_tuner) with
\* refdiv_factor = 1 when the REFDIV field written to the tuner is 0 and 2
\* when it is 1; M < 13 or M >= 141 is rejected without a register write
C25_MultiplierAsStated == MultiplierRule(1, 2)

\* C25: M = f_vco / (refdiv_factor * f_xtal_tuner) with refdiv_factor = 2
\* when the REFDIV field written to the tuner is 0 and 1 when it is 1;
\* M < 13 or M >= 141 is rejected before any PLL field is written
C25_Multiplier == MultiplierRule(2, 1)

C25_Witness ==
  /\ lastOp = "tuner_set_frequency"
  /\ lastArg.frequency = 100000
  /\ lastArg.failAt = 0
  /\ lastRet = "OK"
  /\ DevField(tun.t, R820T2_REFDIV) = 1
  /\ tun.t.pll.raw_int = 107
  /\ tun.t.pll.raw_frac = 0
  /\ MultiplierIs(1)

\* the SDM value the device holds: SDM_INH and SDM_INL
DevSdm(t) == DevField(t, R820T2_SDM_INH) * 256 + DevField(t, R820T2_SDM_INL)

\* the intervals next to 0, 65536 and 32768 that the written fraction avoids,
\* with the margin 65536 / 128 = 512
InSpurInterval(frac) ==
  \/ 0 < frac /\ frac < 512
  \/ 65536 - 512 < frac /\ frac < 65536
  \/ 32768 - 256 < frac /\ frac < 32768
  \/ 32768 < frac /\ frac < 32768 + 256

\* C26: for every accepted PLL frequency the fraction written as SDM is in
\* none of (0, 512), (65024, 65536), (32512, 32768), (32768, 33024); a
\* fraction outside these intervals is written unchanged; a fraction of the
\* upper interval is written as 0 with M_int one higher; PW_SDM is 1 exactly
\* when the fraction written is 0
C26_BoundarySpur ==
  (lastOp = "tuner_set_frequency" /\ lastRet = "OK") =>
    LET p == tun.t.pll
        sdm == DevSdm(tun.t)
        mult_int == 13 + 4 * DevField(tun.t, R820T2_NI2C)
                       + DevField(tun.t, R820T2_SI2C)
    IN  /\ ~InSpurInterval(sdm)
        /\ ~InSpurInterval(p.raw_frac) => sdm = p.raw_frac
        /\ (0 < p.raw_frac /\ p.raw_frac < 512) => sdm = 0
        /\ (32512 < p.raw_frac /\ p.raw_frac < 32768) => sdm = 32512
        /\ (32768 < p.raw_frac /\ p.raw_frac < 33024) => sdm = 33024
        /\ IF 65024 < p.raw_frac /\ p.raw_frac < 65536
           THEN sdm = 0 /\ mult_int = p.raw_int + 1
           ELSE mult_int = p.raw_int
        /\ DevField(tun.t, R820T2_PW_SDM) = 1 <=> sdm = 0
        /\ DevField(tun.t, R820T2_PW_SDM) \in {0, 1}

C26_Witness ==
  /\ lastOp = "tuner_set_frequency"
  /\ lastRet = "OK"
  /\ lastArg.frequency = 99999
  /\ tun.t.pll.raw_int = 106
  /\ 65024 < tun.t.pll.raw_frac
  /\ DevSdm(tun.t) = 0
  /\ DevField(tun.t, R820T2_NI2C) = 23
  /\ DevField(tun.t, R820T2_SI2C) = 2
  /\ DevField(tun.t, R820T2_PW_SDM) = 1

\* tuner_set_frequency(100 MHz) has succeeded on a tuner with f_if = 7 MHz
\* and f_xtal_tuner = 32 MHz
Tuned100MHz ==
  /\ lastOp = "tuner_set_frequency"
  /\ lastArg.frequency = 100000
  /\ lastRet = "OK"
  /\ tun.t.if_frequency = 7000
  /\ tun.t.xtal_frequency = 32000

\* sel_div, M in units of 1/65536 and the four PLL fields of the device
PllProgrammed(sel_div, m_scaled, ni2c, si2c, sdm, pw_sdm) ==
  /\ tun.t.pll.sel_div = sel_div
  /\ DevField(tun.t, R820T2_SEL_DIV) = sel_div
  /\ tun.t.pll.raw_int * 65536 + tun.t.pll.raw_frac = m_scaled
  /\ DevField(tun.t, R820T2_NI2C) = ni2c
  /\ DevField(tun.t, R820T2_SI2C) = si2c
  /\ DevSdm(tun.t) = sdm
  /\ DevField(tun.t, R820T2_PW_SDM) = pw_sdm

\* C27 as stated: tuner_set_frequency(100 MHz) programs sel_div = 3,
\* M = 26.75 and writes NI2C = 3, SI2C = 1, SDM = 49152, PW_SDM = 0
C27_ExampleAsStated ==
  Tuned100MHz => PllProgrammed(3, 26 * 65536 + 49152, 3, 1, 49152, 0)

\* C27: tuner_set_frequency(100 MHz) programs sel_div = 4 (VCO 3.424 GHz),
\* M = 107 and writes NI2C = 23, SI2C = 2, SDM = 0, PW_SDM = 1
C27_Example ==
  Tuned100MHz => PllProgrammed(4, 107 * 65536, 23, 2, 0, 1)

C27_Witness ==
  /\ Tuned100MHz
  /\ lastArg.failAt = 0
  /\ DevField(tun.t, R820T2_NI2C) = 23
  /\ DevSdm(tun.t) = 0

\* the rows of tuner_if_bandwidth_table for the bandwidth of the last call
BandwidthRows ==
  {i \in 1..Len(tuner_if_bandwidth_table) :
     tuner_if_bandwidth_table[i][1] = lastArg.bandwidth}

\* the low nibble of register 0x0A and the whole of register 0x0B are the
\* bytes reg0x0a and reg0x0b, in the shadow and in the device
BandwidthSet(reg0x0a, reg0x0b) ==
  /\ tun.t.registers[10] % 16 = reg0x0a % 16
  /\ tun.t.registers[11] = reg0x0b
  /\ tun.t.dev[10] = tun.t.registers[10]
  /\ tun.t.dev[11] = tun.t.registers[11]
  /\ tun.t.dirty \cap {10, 11} = {}

\* C28: tuner_set_if_bandwidth succeeds exactly for the 15 bandwidths of
\* the table and then the low nibble of register 0x0A and the whole of
\* register 0x0B are the two bytes of the row, flushed to the device
\* (2,200,000 Hz: low nibble 0x0F and 0x8F); any other bandwidth fails with
\* shadow and device unchanged
C28_IfBandwidth ==
  /\ Len(tuner_if_bandwidth_table) = 15
  /\ (lastOp = "tuner_set_if_bandwidth" /\ lastArg.failAt = 0) =>
       /\ IF BandwidthRows # {}
          THEN /\ lastRet = "OK"
               /\ \A i \in BandwidthRows :
                    BandwidthSet(tuner_if_bandwidth_table[i][2],
                                 tuner_if_bandwidth_table[i][3])
          ELSE /\ lastRet = "ERR"
               /\ cmds = <<>>
               /\ tun.t.registers = tun.before.registers
               /\ tun.t.dev = tun.before.dev
       /\ lastArg.bandwidth = 2200000 => BandwidthSet(15, 143)

C28_Witness ==
  /\ lastOp = "tuner_set_if_bandwidth"
  /\ lastArg.bandwidth = 2200000
  /\ lastArg.failAt = 0
  /\ lastRet = "OK"
  /\ tun.t.dev[10] % 16 = 15
  /\ tun.t.dev[11] = 143
  /\ tun.before.dev[11] # 143

(***************************************************************************)
(* The fields of the tuner, written and read one at a time                 *)
(***************************************************************************)

\* the values written to a field: the smallest ones and the largest one that
\* pass the assertions of tuner_write_value
FieldValues(where) ==
  {v \in {0, 1, 2, 5, where[2] \div Pow2(where[3])} : Fits(where, v)}

\* tuner_write_value is followed for every field without a failing transfer,
\* and with a failing write for FILT_CODE
WriteInputs ==
  UNION {{[where |-> w, value |-> v, failAt |-> 0] : v \in FieldValues(w)} :
           w \in Fields}
  \cup {[where |-> R820T2_FILT_CODE, value |-> 15, failAt |-> 1]}

\* tuner_write_value
TunerWriteValue ==
  /\ tun.open
  /\ tun.n < MaxTunerOps
  /\ \E in \in WriteInputs :
       \E t \in {tuner_write_value(Called(in.failAt, tun.t.locked),
                                   in.where, in.value)} :
         TunerCall("tuner_write_value", in, t)

\* the fields read: the one written by the call before, and the two that
\* the tuner functions read
ReadFields ==
  {R820T2_VCO_INDICATOR, R820T2_FIL_CAL_CODE}
  \cup (IF lastOp = "tuner_write_value" THEN {lastArg.where} ELSE {})

\* tuner_read_value; wrote is the value that the call before has written to
\* the field and the device has acknowledged, or -1
TunerReadValue ==
  /\ tun.open
  /\ tun.n < MaxTunerOps
  /\ \E where \in ReadFields, failAt \in {0, 1}, locked \in BOOLEAN :
       \E t \in {tuner_read_value(Called(failAt, locked), where)} :
         TunerCall("tuner_read_value",
                   [where |-> where, failAt |-> failAt, value |-> t.value,
                    wrote |-> IF /\ lastOp = "tuner_write_value"
                                 /\ lastRet = "OK"
                                 /\ lastArg.where = where
                              THEN lastArg.value ELSE -1],
                   t)

NextTunerField ==
  \/ TunerOpen
  \/ TunerClose
  \/ TunerWriteValue
  \/ TunerReadValue

SpecTunerField == Init /\ [][NextTunerField]_vars

\* C22: for every field (reg, mask, shift) and every value v that fits it,
\* after tuner_write_value(field, v) the field reads v in the shadow, the
\* bits of shadow[reg] outside mask and the other shadow registers are as
\* before, and a tuner_read_value of the field, to which the device returns
\* the register it has acknowledged, gives v again
C22_FieldRoundTrip ==
  /\ lastOp = "tuner_write_value" =>
       LET reg == lastArg.where[1]
       IN  /\ tuner_get_value(tun.t, lastArg.where) = lastArg.value
           /\ Outside(tun.t.registers[reg], lastArg.where[2])
                = Outside(tun.before.registers[reg], lastArg.where[2])
           /\ \A i \in RegIdx \ {reg} :
                tun.t.registers[i] = tun.before.registers[i]
           /\ lastRet = "OK" =>
                GetField(tun.t.dev[reg], lastArg.where) = lastArg.value
  /\ (/\ lastOp = "tuner_read_value"
      /\ lastRet = "OK"
      /\ lastArg.wrote >= 0
      /\ tun.t.dev[lastArg.where[1]] = tun.before.registers[lastArg.where[1]])
     => /\ lastArg.value = lastArg.wrote
        /\ tuner_get_value(tun.t, lastArg.where) = lastArg.wrote

C22_Witness ==
  /\ lastOp = "tuner_read_value"
  /\ lastRet = "OK"
  /\ lastArg.where = R820T2_SEL_DIV
  /\ lastArg.wrote = 5
  /\ lastArg.value = 5
  /\ tun.t.registers[16] = tun.t.dev[16]
  /\ Outside(tun.t.registers[16], 224) # 0

\* the last operation was a tuner_set_frequency whose PLL programming came
\* to its test of the lock bit: the indicator was read with the bit set, or
\* read again after the retry
LockTested ==
  /\ lastOp = "tuner_set_frequency"
  /\ lastArg.vco # <<>>
  /\ Len(lastArg.vco) = 2 \/ BitAnd(lastArg.vco[1], 64) = 64

\* C33: the PLL programming reports the "unable to get the PLL to lock"
\* warning exactly when the most recent read of the VCO indicator (the read
\* after the retry, when there was a retry) has bit 6 clear; when the retry
\* with VCO current code 3 achieves lock, no warning is reported.
C33_LockWarning ==
  LockTested =>
    (lastArg.warned <=> BitAnd(lastArg.vco[Len(lastArg.vco)], 64) = 0)

\* the shadow of the tuner holds no unflushed register: the dirty mask is
\* zero and the writable registers are as the device holds them
ShadowInSync ==
  /\ tun.t.dirty = {}
  /\ \A i \in 4..31 : tun.t.registers[i] = tun.t.dev[i]

\* C36: after tuner_open succeeds and after every public tuner operation
\* that returns success (tuner_set_frequency, tuner_set_harmonic_frequency,
\* the gain and AGC setters,
\* tuner_set_if_bandwidth, tuner_standby), the dirty mask is zero and every
\* writable register (4..31) of the shadow equals the value last written to
\* or read from the device.
C36_ShadowInSync ==
  (tun.open /\ lastRet = "OK"
   /\ lastOp \in {"tuner_open", "tuner_set_frequency",
                  "tuner_set_harmonic_frequency", "tuner_set_if_bandwidth",
                  "tuner_standby"} \cup GainSetters) => ShadowInSync

\* the commands of the PLL programming of the last tuner_set_frequency: the
\* commands after those of tuner_set_mux
PllCmds ==
  LET m == Len(tuner_set_mux(tun.before, lastArg.frequency).log)
  IN  IF Len(cmds) > m THEN SubSeq(cmds, m + 1, Len(cmds)) ELSE <<>>

\* the positions of the reads in a sequence of commands
ReadsOf(log) == {i \in 1..Len(log) : log[i].req = "I2CR"}

\* one write of the register of a field
WritesField(c, where) == c.req = "I2CW" /\ c.reg = where[1] /\ c.len = 1

\* the last operation was a tuner_set_frequency whose PLL parameters were
\* computed and handed to tuner_apply_pll_parameters
PllApplied ==
  /\ lastOp = "tuner_set_frequency"
  /\ tun.t.pll.ret = 0
  /\ PllCmds # <<>>

\* C37: tuner_apply_pll_parameters makes at most one lock retry: it writes
\* PLL autotune 0 and VCO current code 4, flushes the PLL fields, reads the
\* lock indicator, and only if bit 6 is clear writes VCO current code 3 and
\* reads the indicator once more; without I2C errors it returns success
\* whether or not the PLL locked, and on every successful return the PLL
\* autotune field holds 2.
C37_OneLockRetry ==
  PllApplied =>
    LET log == PllCmds
        n == Len(log)
        reads == ReadsOf(log)
        first == CHOOSE i \in reads : \A j \in reads : i <= j
    IN  /\ WritesField(log[1], R820T2_PLL_AUTO_CLK)
        /\ n >= 2 => WritesField(log[2], R820T2_VCO_CURRENT)
        /\ Cardinality(reads) <= 2
        /\ \A i \in reads : log[i].reg = 0 /\ log[i].len = 3
        /\ \A i \in 1..n : (reads # {} /\ i < first) => log[i].req = "I2CW"
        /\ (reads # {} /\ first < n) =>
             IF BitAnd(lastArg.vco[1], 64) = 0
             THEN /\ WritesField(log[first + 1], R820T2_VCO_CURRENT)
                  /\ n >= first + 2 => first + 2 \in reads
                  /\ n >= first + 3 =>
                       WritesField(log[first + 3], R820T2_PLL_AUTO_CLK)
                  /\ n <= first + 3
             ELSE /\ WritesField(log[first + 1], R820T2_PLL_AUTO_CLK)
                  /\ n = first + 1
        /\ lastArg.failAt = 0 => lastRet = "OK"
        /\ lastRet = "OK" =>
             /\ DevField(tun.t, R820T2_PLL_AUTO_CLK) = 2
             /\ tuner_get_value(tun.t, R820T2_PLL_AUTO_CLK) = 2
             /\ Len(lastArg.vco) = Cardinality(reads)
             /\ Cardinality(reads) = 2 <=> BitAnd(lastArg.vco[1], 64) = 0
             /\ DevField(tun.t, R820T2_VCO_CURRENT) =
                  (IF Cardinality(reads) = 2 THEN 3 ELSE 4)

C37_Witness ==
  /\ PllApplied /\ lastRet = "OK"
  /\ lastArg.vco = <<0, 0>>
  /\ Cardinality(ReadsOf(PllCmds)) = 2
  /\ DevField(tun.t, R820T2_VCO_CURRENT) = 3
  /\ DevField(tun.t, R820T2_PLL_AUTO_CLK) = 2

\* the rows of mux_params_table, counted from 0, whose lower frequency is
\* not above f
RowsUpTo(f) ==
  {i \in 0..(Len(mux_params_table) - 1) : mux_params_table[i + 1][1] <= f}

\* C38: for every RF frequency f, tuner_compute_mux_parameters takes the row
\* of the 21-row band table with the largest lower frequency not above f
\* (row 0 for f below every bound, the last row for f >= 650 MHz), never
\* indexes outside the table, and derives OPEN_D, RFMUX, RFFILT, TF_NCH and
\* TF_LP from the three bytes of that row.
C38_MuxRow ==
  lastOp = "tuner_compute_mux_parameters" =>
    LET f == lastArg.frequency
        idx == lastArg.idx
        row == mux_params_table[idx + 1]
    IN  /\ Len(mux_params_table) = 21
        /\ idx \in 0..20
        /\ RowsUpTo(f) = {} => idx = 0
        /\ RowsUpTo(f) # {} =>
             /\ idx \in RowsUpTo(f)
             /\ \A i \in RowsUpTo(f) :
                  mux_params_table[i + 1][1] <= row[1]
        /\ f >= 650000 => idx = 20
        /\ lastArg.mux_params =
             [open_d |-> row[2] \div 8,
              rfmux |-> row[3] \div 64, rffilt |-> row[3] % 4,
              tf_nch |-> row[4] \div 16, tf_lp |-> row[4] % 16]

C38_Witness ==
  /\ lastOp = "tuner_compute_mux_parameters"
  /\ lastArg.frequency = 310000
  /\ lastArg.idx = 17
  /\ lastArg.mux_params = [open_d |-> 0, rfmux |-> 1, rffilt |-> 1,
                           tf_nch |-> 0, tf_lp |-> 0]

\* the last operation was a tuning: tuner_set_frequency, or
\* tuner_set_harmonic_frequency with a harmonic it accepts
Tuning ==
  \/ lastOp = "tuner_set_frequency"
  \/ /\ lastOp = "tuner_set_harmonic_frequency"
     /\ lastArg.harmonic > 0 /\ lastArg.harmonic % 2 = 1

\* the LO frequency in kHz the last tuning asks of the PLL
TuningLo ==
  IF lastOp = "tuner_set_frequency" THEN lastArg.frequency + 7000
  ELSE (lastArg.frequency + 7000) \div lastArg.harmonic

\* the commands tuner_set_mux issues for the frequency of the last tuning
\* when none fails
MuxCmds == tuner_set_mux(tun.before, lastArg.frequency).log

\* the device holds the PLL fields of the parameters p
PllFieldsAre(p) ==
  /\ DevField(tun.t, R820T2_REFDIV) = p.refdiv
  /\ DevField(tun.t, R820T2_SEL_DIV) = p.sel_div
  /\ DevField(tun.t, R820T2_PW_SDM) = p.pw_sdm
  /\ DevField(tun.t, R820T2_SI2C) = p.si2c
  /\ DevField(tun.t, R820T2_NI2C) = p.ni2c
  /\ DevSdm(tun.t) = p.sdm

\* the device holds the mux fields of the band of a frequency
MuxFieldsAre(m) ==
  /\ DevField(tun.t, R820T2_OPEN_D) = m.open_d
  /\ DevField(tun.t, R820T2_RFMUX) = m.rfmux
  /\ DevField(tun.t, R820T2_RFFILT) = m.rffilt
  /\ DevField(tun.t, R820T2_TF_NCH) = m.tf_nch
  /\ DevField(tun.t, R820T2_TF_LP) = m.tf_lp

\* C39: tuner_set_frequency(f) applies the RF mux settings for f and then
\* programs the PLL to f + f_if, in that order, and does not touch the PLL
\* if the mux step fails; tuner_set_harmonic_frequency(f, N) does the same
\* with the LO (f + f_if) / N and rejects every N that is even, zero or
\* negative before writing any register.
C39_MuxThenPll ==
  /\ Tuning =>
       LET m == Len(MuxCmds)
           k == IF Len(cmds) < m THEN Len(cmds) ELSE m
       IN  /\ \A i \in 1..k :
                /\ cmds[i].req = MuxCmds[i].req
                /\ cmds[i].reg = MuxCmds[i].reg
                /\ cmds[i].len = MuxCmds[i].len
           /\ (\E i \in 1..k : ~cmds[i].ok) =>
                /\ lastRet = "ERR"
                /\ Len(cmds) <= m /\ ~cmds[Len(cmds)].ok
                /\ tun.t.pll = tun.before.pll
                /\ \A where \in PllFields :
                     tuner_get_value(tun.t, where) =
                       tuner_get_value(tun.before, where)
           /\ (\A i \in 1..k : cmds[i].ok) =>
                /\ Len(cmds) >= m
                /\ tun.t.pll =
                     tuner_compute_pll_parameters(tun.t.xtal_frequency,
                                                  TuningLo)
                /\ tun.t.pll.ret = 0 => Len(cmds) > m
                /\ lastRet = "OK" =>
                     /\ PllFieldsAre(tun.t.pll)
                     /\ MuxFieldsAre(tuner_compute_mux_parameters(
                                       lastArg.frequency))
  /\ (lastOp = "tuner_set_harmonic_frequency" /\ ~Tuning) =>
       /\ lastRet = "ERR"
       /\ cmds = <<>>
       /\ tun.t.registers = tun.before.registers
       /\ tun.t.dirty = tun.before.dirty
       /\ tun.t.dev = tun.before.dev

C39_Witness ==
  /\ lastOp = "tuner_set_harmonic_frequency"
  /\ lastArg.frequency = 293000 /\ lastArg.harmonic = 3
  /\ lastRet = "OK"
  /\ Len(cmds) > Len(MuxCmds)
  /\ tun.t.pll = tuner_compute_pll_parameters(32000, 100000)
  /\ tun.t.pll.ret = 0
  /\ PllFieldsAre(tun.t.pll)

=============================================================================
